---- MODULE Spec2Model ----
(***************************************************************************)
(* A state-machine model of the orchestration subsystem of open_llm:       *)
(* CostMonitor, PerformanceTracker, SelfHealingController, LoadBalancer,   *)
(* SLARouter, AdaptiveBatcher, CircuitBreaker and the batching stage of    *)
(* Orchestrator.route_query.                                               *)
(*                                                                         *)
(* Conventions.                                                            *)
(*  - Every component has its own variables, its own initial predicate     *)
(*    and its own next-state relation; a component specification leaves    *)
(*    the variables of the other components unchanged.                     *)
(*  - Money is counted in micro-dollars (1 dollar = 1000000), so that the  *)
(*    rate table of cost.py (dollars per 1000 tokens) is integral.         *)
(*  - Wall-clock time is an integer number of seconds (time.time()).       *)
(*  - A Python exception raised by an operation is recorded in the         *)
(*    operation's result record (field outcome), the state being what the  *)
(*    code had assigned before the raise.                                  *)
(*  - The statements of the source are modelled by what the called         *)
(*    library operation is written to do on the data structure at hand     *)
(*    (heapq.heappush on the pending SortedList inserts the item in key    *)
(*    order, heapq.nsmallest orders by BatchItem.__lt__); unresolved       *)
(*    imports and decorators of the source files are not modelled.         *)
(***************************************************************************)
EXTENDS Integers, Sequences, FiniteSets, TLC

None == "None"

Max(a, b) == IF a >= b THEN a ELSE b
Min(a, b) == IF a <= b THEN a ELSE b

RECURSIVE SumOver(_, _)
SumOver(S, f) ==
    IF S = {} THEN 0 ELSE LET x == CHOOSE y \in S : TRUE IN f[x] + SumOver(S \ {x}, f)

RECURSIVE ProdOver(_, _)
ProdOver(S, f) ==
    IF S = {} THEN 1 ELSE LET x == CHOOSE y \in S : TRUE IN f[x] * ProdOver(S \ {x}, f)

RECURSIVE SumSeq(_)
SumSeq(s) == IF s = <<>> THEN 0 ELSE Head(s) + SumSeq(Tail(s))

Range(s) == {s[i] : i \in DOMAIN s}

(***************************************************************************)
(*                               Variables                                 *)
(***************************************************************************)
\* CostMonitor
VARIABLES
    today,          \* datetime.now(): [year, month, day]
    cost_db,        \* data/cost_tracking.json: [monthly_budget, periods,
                    \* provider_rates, corrupt]
    cost_config,    \* CostMonitor.config: a dict with or without "monthly_budget"
    current_spend,  \* CostMonitor.current_spend
    current_period, \* CostMonitor.current_period (the dict built at load time)
    cost_result,    \* outcome of the last CostMonitor operation
    cost_calls      \* number of record_llm_call calls made so far

\* CircuitBreaker
VARIABLES
    cb_state,            \* CircuitBreaker.state
    cb_failure_count,    \* CircuitBreaker.failure_count
    cb_last_failure,     \* CircuitBreaker.last_failure_time, -1 for None
    cb_now,              \* time.time()
    cb_pc,               \* per caller: "idle", or "in_flight" inside await func()
    cb_event,            \* what the last step of a wrapped call did
    cb_consecutive,      \* history: failed completions since the last successful one
    cb_probe             \* history: the caller whose call took the circuit from
                         \* open to half-open and is in flight, 0 for none

\* AdaptiveBatcher
VARIABLES
    pending,     \* AdaptiveBatcher.pending: BatchItems, highest priority first
    sem_value,   \* permits of AdaptiveBatcher.semaphore
    waiters,     \* callers suspended in semaphore.acquire(), first come first
    b_result,    \* per caller: what its last add_query call came to
    b_adds,      \* number of add_query calls made so far
    b_burst      \* history: add_query calls made in a row since pending was
                 \* empty (-1: something else happened since)

\* Orchestrator (the batching stage of route_query)
VARIABLES
    orch_pc,        \* per caller: where its route_query call stands
    orch_query,     \* per caller: the Query object it passed to route_query
    orch_cur,       \* per caller: the Query of its innermost route_query call
    orch_stack,     \* per caller: the enclosing route_query calls of its call
    orch_work,      \* per caller: the batch its _batch_process call works on
    orch_response,  \* per caller: the Response route_query returned
    provider_calls, \* the batch_complete calls the providers received
    scenario        \* history: the callers whose add_query calls were the
                    \* first max_batch_size calls, made in a row, for one
                    \* batching-capable provider

\* PerformanceTracker, SelfHealingController, LoadBalancer, SLARouter
VARIABLES
    perf_now,        \* time.time() of the tracker, in seconds
    session_metrics, \* PerformanceTracker.session_metrics
    health_status,   \* SelfHealingController.health_status, by module id
    weights,         \* LoadBalancer.weights: provider -> weight (a fraction)
    history,         \* LoadBalancer.history
    route_result,    \* what the last select_provider call came to
    min_requests     \* load_balancing.min_requests of the configuration

costVars == <<today, cost_db, cost_config, current_spend, current_period,
              cost_result, cost_calls>>

cbVars == <<cb_state, cb_failure_count, cb_last_failure, cb_now, cb_pc,
            cb_event, cb_consecutive,
           cb_probe>>

batcherVars == <<pending, sem_value, waiters, b_result, b_adds, b_burst>>

orchVars == <<orch_pc, orch_query, orch_cur, orch_stack, orch_work, orch_response,
              provider_calls, scenario>>

routingVars == <<perf_now, session_metrics, health_status, weights, history,
                 route_result, min_requests>>

\* ---- QualityValidator (src/core/validation/quality_gates.py)
VARIABLES
    val_standards,      \* QualityValidator.standards: min_complexity in tenths,
                        \* -1 when the key is absent
    val_min_complexity, \* compiled_rules["min_complexity"], in tenths
    val_log             \* history: the validate calls made, [content, result]

valVars == <<val_standards, val_min_complexity, val_log>>

\* ---- RetryHandler (src/core/errors/handlers.py)
VARIABLES
    rt_max_retries,     \* RetryHandler.max_retries
    rt_pc,              \* per caller of the wrapper: "idle", "calling" (inside
                        \* await func()), "sleeping" (inside asyncio.sleep), "done"
    rt_attempt,         \* per caller: attempt of the for loop
    rt_last_exception,  \* per caller: last_exception
    rt_delay,           \* per caller: the delay of its last asyncio.sleep
    rt_log,             \* history, per caller: what each invocation of func did
    rt_result           \* per caller: what the wrapper returned or raised

retryVars == <<rt_max_retries, rt_pc, rt_attempt, rt_last_exception, rt_delay,
               rt_log, rt_result>>

\* ---- the callers of the read operations of the services
VARIABLES
    recommended         \* what the last get_recommended_source call returned:
                        \* [query_hash, source]

\* ---- threads inside CostMonitor.record_llm_call
VARIABLES
    w_pc,               \* per thread: "idle", or "loaded" between json.load and
                        \* json.dump of record_llm_call
    w_local,            \* per thread: data, the dict it loaded and changed, and
                        \* the cost of its call
    w_expected          \* history: the spend of the last period at the start
                        \* plus the costs of the calls recorded since

writerVars == <<w_pc, w_local, w_expected>>

\* ---- the background tasks (asyncio.create_task of a while True loop)
VARIABLES
    bg_tasks            \* per task: alive (the coroutine has not ended), cycles
                        \* (rounds of its loop completed or ended by a raise)
                        \* and raised (rounds in which an exception was raised)

backgroundVars == <<bg_tasks>>

\* ---- ContextManager (src/core/context.py)
VARIABLES
    interaction_log     \* ContextManager.interaction_log: [query, response]

contextVars == <<interaction_log>>

\* ---- ConnectionPool (src/core/performance/optimisation.py)
VARIABLES
    connections,         \* ConnectionPool.connections: the queue of idle connections
    created_connections, \* ConnectionPool.created_connections
    pool_pc,             \* per caller: "idle", "creating" (inside await
                         \* _create_connection()), "getting" (inside await
                         \* connections.get()), "holding" (it has a connection),
                         \* "putting" (inside await connections.put(conn))
    pool_conn            \* per caller: the connection it holds, 0 for none

poolVars == <<connections, created_connections, pool_pc, pool_conn>>

svcVars == <<recommended, writerVars, backgroundVars, contextVars, poolVars>>

\* the variables of the components of the request path
coreVars == <<costVars, cbVars, batcherVars, orchVars, routingVars, valVars, retryVars>>
coreVarsButRouting == <<costVars, cbVars, batcherVars, orchVars, valVars, retryVars>>

vars == <<costVars, cbVars, batcherVars, orchVars, routingVars, valVars, retryVars,
          svcVars>>

\* the variables a component leaves alone
notCostVars == <<cbVars, batcherVars, orchVars, routingVars, valVars, retryVars,
    svcVars>>
notCbVars == <<costVars, batcherVars, orchVars, routingVars, valVars, retryVars,
    svcVars>>
notBatcherVars == <<costVars, cbVars, orchVars, routingVars, valVars, retryVars,
    svcVars>>
notOrchVars == <<costVars, cbVars, routingVars, valVars, retryVars,
    svcVars>>
notRoutingVars == <<costVars, cbVars, batcherVars, orchVars, valVars, retryVars,
    svcVars>>
notValVars == <<costVars, cbVars, batcherVars, orchVars, routingVars, retryVars,
    svcVars>>
notRetryVars == <<costVars, cbVars, batcherVars, orchVars, routingVars, valVars,
    svcVars>>
notOrchNorContextVars == <<costVars, cbVars, routingVars, valVars, retryVars,
    recommended, writerVars, backgroundVars, poolVars>>
notPoolVars == <<coreVars, recommended, writerVars, backgroundVars, contextVars>>

(***************************************************************************)
(*                              CostMonitor                                *)
(***************************************************************************)
\* ---- bounds of the cost model
MaxCostCalls == 3
MaxMonthsAhead == 2
MaxDay == 2

\* the date at which the model starts (a November, so that the model crosses
\* a year boundary)
StartYear == 2026
StartMonth == 11

\* ---- the rate table written by _init_db, in micro-dollars per 1000 tokens
RateProviders == {"openai", "anthropic", "ollama", "huggingface"}

ProviderRates ==
    [p \in RateProviders |->
        CASE p = "openai"      -> [m \in {"gpt-4", "gpt-3.5"} |->
                                      IF m = "gpt-4" THEN 30000 ELSE 2000]
          [] p = "anthropic"   -> [m \in {"claude-2", "claude-instant"} |->
                                      IF m = "claude-2" THEN 46500 ELSE 16300]
          [] p = "ollama"      -> [m \in {"llama2", "mistral"} |-> 0]
          [] p = "huggingface" -> [m \in {"default"} |-> 0]]

DefaultMonthlyBudget == 100000000

\* the configurations a CostMonitor may be given: a dict without or with the
\* key "monthly_budget"
ConfigChoices == {[k \in {} |-> 0], [k \in {"monthly_budget"} |-> 50000]}

\* calls offered to record_llm_call and the token counts (non-negative)
CallChoices == {<<"openai", "gpt-4">>, <<"anthropic", "claude-2">>,
                <<"ollama", "llama2">>, <<"gpt", "gpt-4">>}
TokenChoices == {0, 1000}

\* ---- calendar
IsLeap(y) == (y % 4 = 0 /\ y % 100 # 0) \/ y % 400 = 0

DaysInMonth(y, m) ==
    IF m = 2 THEN (IF IsLeap(y) THEN 29 ELSE 28)
    ELSE IF m \in {4, 6, 9, 11} THEN 30 ELSE 31

\* strftime("%Y-%m")
PeriodLabel(d) == <<d.year, d.month>>

NextMonthDate(d) ==
    IF d.month = 12 THEN [year |-> d.year + 1, month |-> 1, day |-> 1]
    ELSE [year |-> d.year, month |-> d.month + 1, day |-> 1]

\* ---- _init_db / _load_current_period / __init__
ZeroBreakdown == [p \in RateProviders |-> 0]

NewPeriod(label) ==
    [period |-> label, total_spend |-> 0, breakdown |-> ZeroBreakdown]

\* _init_db: the file is created only when it does not exist
InitDb(exists, file, config) ==
    IF ~exists
    THEN [monthly_budget |-> IF "monthly_budget" \in DOMAIN config
                             THEN config["monthly_budget"] ELSE DefaultMonthlyBudget,
          periods |-> <<>>, provider_rates |-> ProviderRates, corrupt |-> FALSE]
    ELSE file

\* _load_current_period: the period appended here lives in the loaded copy
\* of the data only; the file is opened for reading and never written.
LoadCurrentPeriod(file, date) ==
    LET label == PeriodLabel(date)
        periods == IF file.periods = <<>> \/ file.periods[Len(file.periods)].period # label
                   THEN Append(file.periods, NewPeriod(label))
                   ELSE file.periods
    IN periods[Len(periods)]

\* _get_rate: model rate, else the provider's "default", else 0.0
GetRate(provider, model) ==
    LET rates == cost_db.provider_rates
        provider_rates == IF provider \in DOMAIN rates
                          THEN rates[provider] ELSE [m \in {} |-> 0]
        r == IF model \in DOMAIN provider_rates THEN provider_rates[model]
             ELSE IF "default" \in DOMAIN provider_rates THEN provider_rates["default"]
             ELSE 0
    IN [input |-> r, output |-> r]

CallCost(provider, model, input_tokens, output_tokens) ==
    LET rate == GetRate(provider, model)
    IN (input_tokens * rate.input + output_tokens * rate.output) \div 1000

\* ---- the ledger files a CostMonitor may be constructed over: no file, a
\* file holding a period of the month before the start, a file holding the
\* period of the start month with some spend already booked
StartDate == [year |-> StartYear, month |-> StartMonth, day |-> 1]

InitFileChoices ==
    {[monthly_budget |-> DefaultMonthlyBudget,
      periods |-> <<[period |-> <<StartYear, StartMonth - 1>>, total_spend |-> 30000,
                     breakdown |-> [ZeroBreakdown EXCEPT !["openai"] = 30000]]>>,
      provider_rates |-> ProviderRates, corrupt |-> FALSE],
     [monthly_budget |-> 50000,
      periods |-> <<NewPeriod(<<StartYear, StartMonth - 1>>),
                    [period |-> <<StartYear, StartMonth>>, total_spend |-> 30000,
                     breakdown |-> [ZeroBreakdown EXCEPT !["openai"] = 30000]]>>,
      provider_rates |-> ProviderRates, corrupt |-> FALSE]}

\* a ledger file whose provider_rates an operator has completed with the
\* keys the SLARouter looks rates up under (the provider name up to its
\* first dash)
RouterRates ==
    [p \in RateProviders \cup {"gpt", "claude"} |->
        CASE p = "gpt" -> ProviderRates["openai"]
          [] p = "claude" -> ProviderRates["anthropic"]
          [] OTHER -> ProviderRates[p]]

SlaFileChoices ==
    InitFileChoices
    \cup {[monthly_budget |-> DefaultMonthlyBudget,
            periods |-> <<NewPeriod(<<StartYear, StartMonth>>)>>,
            provider_rates |-> RouterRates, corrupt |-> FALSE]}

LastPeriod(file) == file.periods[Len(file.periods)]

NoCostResult == [op |-> None, outcome |-> None, cost |-> 0, warned |-> FALSE]

\* CostMonitor.__init__(config), the ledger file existing or not
CostInitOver(config, exists, file) ==
    /\ today = StartDate
    /\ cost_config = config
    /\ cost_db = InitDb(exists, file, cost_config)
    /\ current_period = LoadCurrentPeriod(cost_db, today)
    /\ current_spend = current_period.total_spend
    /\ cost_result = NoCostResult
    /\ cost_calls = 0

\* a CostMonitor constructed over any of the ledger files
CostInit ==
    \E config \in ConfigChoices, exists \in BOOLEAN, file \in InitFileChoices :
       CostInitOver(config, exists, file)

\* a CostMonitor constructed with an empty configuration and no ledger file
CostInitFresh ==
    \E file \in InitFileChoices : CostInitOver([k \in {} |-> 0], FALSE, file)

\* a new process constructs a CostMonitor over the ledger file left behind
CostMonitorRestart ==
    /\ ~cost_db.corrupt
    /\ current_period' = LoadCurrentPeriod(cost_db, today)
    /\ current_spend' = current_period'.total_spend
    /\ cost_result' = [NoCostResult EXCEPT !.op = "__init__", !.outcome = "ok"]
    /\ UNCHANGED <<today, cost_db, cost_config, cost_calls>>
    /\ UNCHANGED notCostVars

\* record_llm_call with the period total overwritten by the cost of the call
\* instead of increased by it
RecordLlmCallOverwrite(provider, model, input_tokens, output_tokens, shorter) ==
    LET cost == CallCost(provider, model, input_tokens, output_tokens)
        res(o, c, w) == [op |-> "record_llm_call", outcome |-> o, cost |-> c, warned |-> w]
    IN
    /\ cost_calls < MaxCostCalls
    /\ cost_calls' = cost_calls + 1
    /\ IF cost_db.corrupt \/ cost_db.periods = <<>>
          \/ provider \notin DOMAIN cost_db.periods[Len(cost_db.periods)].breakdown
       THEN /\ cost_result' = res("IndexError", 0, FALSE)
            /\ UNCHANGED <<cost_db, current_spend>>
       ELSE LET n == Len(cost_db.periods)
                current == [cost_db.periods[n] EXCEPT
                               !.total_spend = cost,
                               !.breakdown[provider] = cost]
            IN /\ cost_db' = [cost_db EXCEPT !.periods[n] = current,
                                             !.corrupt = shorter /\ cost > 0]
               /\ current_spend' = current.total_spend
               /\ cost_result' = res("ok", cost, FALSE)
    /\ UNCHANGED <<today, cost_config, current_period>>
    /\ UNCHANGED notCostVars

\* record_llm_call; shorter: the JSON text written is shorter than the text
\* it overwrites (the file is rewritten from offset 0 and not truncated)
RecordLlmCall(provider, model, input_tokens, output_tokens, shorter) ==
    LET cost == CallCost(provider, model, input_tokens, output_tokens)
        res(o, c, w) == [op |-> "record_llm_call", outcome |-> o, cost |-> c, warned |-> w]
    IN
    /\ cost_calls < MaxCostCalls
    /\ cost_calls' = cost_calls + 1
    /\ IF cost_db.corrupt
       THEN /\ cost_result' = res("JSONDecodeError", 0, FALSE)
            /\ UNCHANGED <<cost_db, current_spend>>
       ELSE IF cost_db.periods = <<>>
       THEN /\ cost_result' = res("IndexError", 0, FALSE)
            /\ UNCHANGED <<cost_db, current_spend>>
       ELSE IF provider \notin DOMAIN LastPeriod(cost_db).breakdown
       THEN /\ cost_result' = res("KeyError", 0, FALSE)
            /\ UNCHANGED <<cost_db, current_spend>>
       ELSE LET n == Len(cost_db.periods)
                current == [cost_db.periods[n] EXCEPT
                               !.total_spend = @ + cost,
                               !.breakdown[provider] = @ + cost]
            IN /\ cost_db' = [cost_db EXCEPT !.periods[n] = current,
                                             !.corrupt = shorter /\ cost > 0]
               /\ current_spend' = current.total_spend
               /\ cost_result' = res("ok", cost,
                                     current.total_spend * 10 > cost_db.monthly_budget * 8)
    /\ UNCHANGED <<today, cost_config, current_period>>
    /\ UNCHANGED notCostVars

\* the wall clock: the next day, or the first day of the next month
NextDay ==
    /\ today.day < Min(MaxDay, DaysInMonth(today.year, today.month))
    /\ today' = [today EXCEPT !.day = @ + 1]
    /\ UNCHANGED <<cost_db, cost_config, current_spend, current_period,
                   cost_result, cost_calls>>
    /\ UNCHANGED notCostVars

MonthsAhead(d) == (d.year - StartYear) * 12 + d.month - StartMonth

NextMonth ==
    /\ MonthsAhead(today) < MaxMonthsAhead
    /\ today' = NextMonthDate(today)
    /\ UNCHANGED <<cost_db, cost_config, current_spend, current_period,
                   cost_result, cost_calls>>
    /\ UNCHANGED notCostVars

CostNext ==
    \/ \E c \in CallChoices, i \in TokenChoices, o \in TokenChoices, shorter \in BOOLEAN :
          RecordLlmCall(c[1], c[2], i, o, shorter)
    \/ CostMonitorRestart
    \/ NextDay
    \/ NextMonth

(***************************************************************************)
(*                             CircuitBreaker                              *)
(***************************************************************************)
\* ---- bounds of the breaker model (the constructor's failure_threshold and
\* recovery_timeout among them)
FailureThreshold == 2
RecoveryTimeout == 1
NumCbCallers == 2
MaxCbTime == 3
MaxCbFailures == 4

CbCallers == 1..NumCbCallers

NoCbEvent == [caller |-> 0, kind |-> None]

\* CircuitBreaker.__init__
CbInit ==
    /\ cb_state = "closed"
    /\ cb_failure_count = 0
    /\ cb_last_failure = -1
    /\ cb_now = 0
    /\ cb_pc = [c \in CbCallers |-> "idle"]
    /\ cb_event = NoCbEvent
    /\ cb_consecutive = 0
    /\ cb_probe = 0

\* wrapper, with the open circuit letting every call through to func
CbCallEnterNoGate(c) ==
    /\ cb_pc[c] = "idle"
    /\ cb_state' = IF cb_state = "open" THEN "half-open" ELSE cb_state
    /\ cb_probe' = IF cb_state = "open" THEN c ELSE cb_probe
    /\ cb_pc' = [cb_pc EXCEPT ![c] = "in_flight"]
    /\ cb_event' = [caller |-> c, kind |-> "invoked"]
    /\ UNCHANGED <<cb_failure_count, cb_last_failure, cb_now, cb_consecutive>>
    /\ UNCHANGED notCbVars

\* wrapper, up to the await: the gate on the open state, then func is invoked
CbCallEnter(c) ==
    /\ cb_pc[c] = "idle"
    /\ IF cb_state = "open"
       THEN IF cb_now - cb_last_failure > RecoveryTimeout
            THEN /\ cb_state' = "half-open"
                 /\ cb_probe' = c
                 /\ cb_pc' = [cb_pc EXCEPT ![c] = "in_flight"]
                 /\ cb_event' = [caller |-> c, kind |-> "invoked"]
            ELSE \* raise Exception("Circuit breaker is open")
                 /\ cb_event' = [caller |-> c, kind |-> "rejected"]
                 /\ UNCHANGED <<cb_state, cb_pc, cb_probe>>
       ELSE /\ cb_pc' = [cb_pc EXCEPT ![c] = "in_flight"]
            /\ cb_event' = [caller |-> c, kind |-> "invoked"]
            /\ UNCHANGED <<cb_state, cb_probe>>
    /\ UNCHANGED <<cb_failure_count, cb_last_failure, cb_now, cb_consecutive>>
    /\ UNCHANGED notCbVars

\* wrapper, after the await, with the success branch closing the circuit
\* from any state
CbCallReturnAnyState(c) ==
    /\ cb_pc[c] = "in_flight"
    /\ cb_pc' = [cb_pc EXCEPT ![c] = "idle"]
    /\ cb_state' = "closed"
    /\ cb_failure_count' = 0
    /\ cb_event' = [caller |-> c, kind |-> "returned"]
    /\ cb_consecutive' = 0
    /\ cb_probe' = IF cb_probe = c THEN 0 ELSE cb_probe
    /\ UNCHANGED <<cb_last_failure, cb_now>>
    /\ UNCHANGED notCbVars

\* wrapper, after the await: func returned a result
CbCallReturn(c) ==
    /\ cb_pc[c] = "in_flight"
    /\ cb_pc' = [cb_pc EXCEPT ![c] = "idle"]
    /\ IF cb_state = "half-open"
       THEN /\ cb_state' = "closed"
            /\ cb_failure_count' = 0
       ELSE UNCHANGED <<cb_state, cb_failure_count>>
    /\ cb_event' = [caller |-> c, kind |-> "returned"]
    /\ cb_consecutive' = 0
    /\ cb_probe' = IF cb_probe = c THEN 0 ELSE cb_probe
    /\ UNCHANGED <<cb_last_failure, cb_now>>
    /\ UNCHANGED notCbVars

\* wrapper, after the await: func raised
CbCallRaise(c) ==
    /\ cb_pc[c] = "in_flight"
    /\ cb_failure_count < MaxCbFailures
    /\ cb_pc' = [cb_pc EXCEPT ![c] = "idle"]
    /\ cb_failure_count' = cb_failure_count + 1
    /\ cb_last_failure' = cb_now
    /\ cb_state' = IF cb_failure_count' >= FailureThreshold THEN "open" ELSE cb_state
    /\ cb_event' = [caller |-> c, kind |-> "raised"]
    /\ cb_consecutive' = Min(cb_consecutive + 1, FailureThreshold)
    /\ cb_probe' = IF cb_probe = c THEN 0 ELSE cb_probe
    /\ UNCHANGED cb_now
    /\ UNCHANGED notCbVars

\* the clock advances by one second
CbTick ==
    /\ cb_now < MaxCbTime
    /\ cb_now' = cb_now + 1
    /\ cb_event' = NoCbEvent
    /\ UNCHANGED <<cb_state, cb_failure_count, cb_last_failure, cb_pc, cb_consecutive,
                   cb_probe>>
    /\ UNCHANGED notCbVars

CbNext ==
    \/ \E c \in CbCallers : CbCallEnter(c)
    \/ \E c \in CbCallers : CbCallReturn(c)
    \/ \E c \in CbCallers : CbCallRaise(c)
    \/ CbTick

(***************************************************************************)
(*                            AdaptiveBatcher                              *)
(***************************************************************************)
\* ---- bounds of the batcher model (the constructor's max_batch_size among
\* them)
MaxBatchSize == 2
NumCallers == 3
MaxAdds == 4
MaxPermits == 2
MaxPriority == 1

Callers == 1..NumCallers
Priorities == 0..MaxPriority

\* BatchItem(priority, query); created_at takes no part in any comparison
BatchItem(priority, query) == [priority |-> priority, query |-> query]

\* SortedList(key=lambda x: -x.priority).add: the item goes behind the items
\* whose key is not greater, so behind every item of the same priority
SortedAdd(pend, item) ==
    LET k == Cardinality({i \in DOMAIN pend : pend[i].priority >= item.priority})
    IN SubSeq(pend, 1, k) \o <<item>> \o SubSeq(pend, k + 1, Len(pend))

\* sorted(iterable), by BatchItem.__lt__ (priority only), stable
RECURSIVE SortedByPriority(_)
SortedByPriority(s) ==
    IF s = <<>> THEN <<>>
    ELSE LET rest == SortedByPriority(SubSeq(s, 1, Len(s) - 1))
             item == s[Len(s)]
             k == Cardinality({i \in DOMAIN rest : rest[i].priority <= item.priority})
         IN SubSeq(rest, 1, k) \o <<item>> \o SubSeq(rest, k + 1, Len(rest))

\* heapq.nsmallest(n, iterable) = sorted(iterable)[:n]
NSmallest(n, s) == SubSeq(SortedByPriority(s), 1, Min(n, Len(s)))

\* _release_batch without the deletion
ReleaseBatchKeep(pend) ==
    LET items == NSmallest(MaxBatchSize, pend)
        batch == [i \in DOMAIN items |-> items[i].query]
    IN [batch |-> batch, pending |-> pend]

\* _release_batch: the batch returned and the pending list left behind
ReleaseBatch(pend) ==
    LET items == NSmallest(MaxBatchSize, pend)
        batch == [i \in DOMAIN items |-> items[i].query]
    IN [batch |-> batch, pending |-> SubSeq(pend, Len(batch) + 1, Len(pend))]

IsWaiting(c) == \E i \in DOMAIN waiters : waiters[i] = c

NoBResult == [outcome |-> None, batch |-> <<>>, suspended |-> FALSE]

\* AdaptiveBatcher.__init__
BatcherInit ==
    /\ pending = <<>>
    /\ sem_value = 0
    /\ waiters = <<>>
    /\ b_result = [c \in Callers |-> NoBResult]
    /\ b_adds = 0
    /\ b_burst = 0

\* the history variable: add says whether the step is an add_query call
Burst(add, pend) ==
    IF pend = <<>> THEN 0
    ELSE IF add /\ b_burst >= 0 THEN b_burst + 1 ELSE -1

\* add_query releasing only when pending exceeds max_batch_size
AddQueryStepStrict(c, query, priority) ==
    LET pend == SortedAdd(pending, BatchItem(priority, query))
        rel == ReleaseBatch(pend)
    IN
    /\ ~IsWaiting(c)
    /\ b_adds < MaxAdds
    /\ b_adds' = b_adds + 1
    /\ IF Len(pend) > MaxBatchSize
       THEN /\ pending' = rel.pending
            /\ b_result' = [b_result EXCEPT ![c] =
                  [outcome |-> "batch", batch |-> rel.batch, suspended |-> FALSE]]
            /\ UNCHANGED waiters
       ELSE /\ pending' = pend
            /\ waiters' = Append(waiters, c)
            /\ b_result' = [b_result EXCEPT ![c] =
                  [outcome |-> "waiting", batch |-> <<>>, suspended |-> TRUE]]
    /\ b_burst' = Burst(TRUE, pending')
    /\ UNCHANGED sem_value

\* add_query releasing only when pending exceeds max_batch_size, and then
\* everything that is pending
AddQueryStepReleaseAll(c, query, priority) ==
    LET pend == SortedAdd(pending, BatchItem(priority, query))
    IN
    /\ ~IsWaiting(c)
    /\ b_adds < MaxAdds
    /\ b_adds' = b_adds + 1
    /\ IF Len(pend) > MaxBatchSize
       THEN /\ pending' = <<>>
            /\ b_result' = [b_result EXCEPT ![c] =
                  [outcome |-> "batch", batch |-> [i \in DOMAIN pend |-> pend[i].query],
                   suspended |-> FALSE]]
            /\ UNCHANGED waiters
       ELSE /\ pending' = pend
            /\ waiters' = Append(waiters, c)
            /\ b_result' = [b_result EXCEPT ![c] =
                  [outcome |-> "waiting", batch |-> <<>>, suspended |-> TRUE]]
    /\ b_burst' = Burst(TRUE, pending')
    /\ UNCHANGED sem_value

\* add_query, up to its return or to its suspension in wait_for
AddQueryStep(c, query, priority) ==
    LET pend == SortedAdd(pending, BatchItem(priority, query))
        rel == ReleaseBatch(pend)
    IN
    /\ ~IsWaiting(c)
    /\ b_adds < MaxAdds
    /\ b_adds' = b_adds + 1
    /\ IF Len(pend) >= MaxBatchSize
       THEN /\ pending' = rel.pending
            /\ b_result' = [b_result EXCEPT ![c] =
                  [outcome |-> "batch", batch |-> rel.batch, suspended |-> FALSE]]
            /\ UNCHANGED waiters
       ELSE /\ pending' = pend
            /\ waiters' = Append(waiters, c)
            /\ b_result' = [b_result EXCEPT ![c] =
                  [outcome |-> "waiting", batch |-> <<>>, suspended |-> TRUE]]
    /\ b_burst' = Burst(TRUE, pending')
    /\ UNCHANGED sem_value

\* add_query resumed: semaphore.acquire() got a permit (the semaphore serves
\* its waiters first come first)
AcquireStep(c) ==
    LET rel == ReleaseBatch(pending)
    IN
    /\ waiters # <<>>
    /\ Head(waiters) = c
    /\ sem_value > 0
    /\ sem_value' = sem_value - 1
    /\ waiters' = Tail(waiters)
    /\ pending' = rel.pending
    /\ b_result' = [b_result EXCEPT ![c] =
          [outcome |-> "batch", batch |-> rel.batch, suspended |-> TRUE]]
    /\ b_burst' = Burst(FALSE, pending')
    /\ UNCHANGED b_adds

\* add_query resumed: wait_for ran into its timeout and raises
\* asyncio.TimeoutError (the waits are equally long, so the longest waiting
\* caller is the first to time out); _release_batch is not reached
TimeoutStep(c) ==
    /\ waiters # <<>>
    /\ Head(waiters) = c
    /\ waiters' = Tail(waiters)
    /\ b_result' = [b_result EXCEPT ![c] =
          [outcome |-> "TimeoutError", batch |-> <<>>, suspended |-> TRUE]]
    /\ b_burst' = Burst(FALSE, pending)
    /\ UNCHANGED <<pending, sem_value, b_adds>>

\* one round of background_flush with something pending
FlushStep ==
    /\ pending # <<>>
    /\ sem_value < MaxPermits
    /\ sem_value' = sem_value + 1
    /\ b_burst' = Burst(FALSE, pending)
    /\ UNCHANGED <<pending, waiters, b_result, b_adds>>

\* the queries of the batcher specification: the content is the number of
\* the add_query call, and the dict carries the priority it is added with,
\* as the model_dump of route_query does
BAddQuery(c, priority) ==
    /\ AddQueryStep(c, [content |-> b_adds + 1, provider |-> "p1",
                        priority |-> priority], priority)
    /\ UNCHANGED notBatcherVars

BAcquire(c) == AcquireStep(c) /\ UNCHANGED notBatcherVars

BTimeout(c) == TimeoutStep(c) /\ UNCHANGED notBatcherVars

BackgroundFlush == FlushStep /\ UNCHANGED notBatcherVars

BatcherNext ==
    \/ \E c \in Callers, priority \in Priorities : BAddQuery(c, priority)
    \/ \E c \in Callers : BAcquire(c)
    \/ \E c \in Callers : BTimeout(c)
    \/ BackgroundFlush

(***************************************************************************)
(*            Orchestrator.route_query: the batching stage                 *)
(*                                                                         *)
(* Stage 1 of route_query (context, provider selection) is taken to have   *)
(* yielded a provider, and stage 2 (reasoning) to have returned.  A Query  *)
(* is [content, priority, allow_batching, require_quality, content_type,   *)
(* provider]: its content, the metadata entries route_query reads and      *)
(* writes, and the attributes content_type, which _handle_failure reads,   *)
(* and provider, which route_query sets.  Query (shared/schemas.py)        *)
(* declares neither attribute: query.provider = provider raises ValueError *)
(* and query.content_type raises AttributeError unless the model accepts   *)
(* extra attributes, so both outcomes are modelled.  Augmentation of a     *)
(* response that passed validation is taken to succeed.                    *)
(***************************************************************************)
\* ---- bound: the number of route_query calls in flight
NumOrchCallers == 2

OrchCallers == 1..Min(NumOrchCallers, NumCallers)

\* the plugins of context.plugin_manager and their supports_batching flag
OrchProviders == {"p1", "p2"}
SupportsBatching(p) == p = "p1"

\* the module ids of registry._instances: register_module takes any
\* MODULE_ID; one id is also the name of a provider, one is a module of
\* modules/module_generic.py
ModuleIds == {"gpt-4", "code_generic"}

\* ---- bound: the depth of the recursion of route_query through
\* _retry_with_stricter_llm
MaxDepth == 2

\* query.content_type as the sequence of its segments between "_"; the
\* empty sequence stands for a Query without the attribute
NoAttr == <<>>
ContentTypes == {NoAttr, <<"code", "python">>, <<"chat">>}

\* a Query object: its content, the keys of its metadata (priority,
\* allow_batching, require_quality, reasoning), the attributes content_type
\* and provider, and who made the object: the caller of route_query, or
\* route_query itself
NoQuery == [content |-> 0, priority |-> 0, allow_batching |-> FALSE,
            require_quality |-> FALSE, reasoning |-> FALSE,
            content_type |-> NoAttr, provider |-> None, owner |-> None]
NoResponse == [source |-> None, content |-> 0, error |-> None]
NoWork == [provider |-> None, batch |-> <<>>, call |-> 0]

\* what a provider, a module or the fallback module answers to a content
ResponseFor(source, content) == [source |-> source, content |-> content, error |-> None]

\* route_query raises
Raised(error) == [source |-> "raised", content |-> 0, error |-> error]

OrchInit ==
    /\ orch_pc = [c \in Callers |-> "idle"]
    /\ orch_query = [c \in Callers |-> NoQuery]
    /\ orch_cur = [c \in Callers |-> NoQuery]
    /\ orch_stack = [c \in Callers |-> <<>>]
    /\ orch_work = [c \in Callers |-> NoWork]
    /\ orch_response = [c \in Callers |-> NoResponse]
    /\ provider_calls = <<>>
    /\ scenario = {}

\* the dict route_query hands to add_query: enriched_query.model_dump()
ModelDump(q) ==
    [content |-> q.content,
     metadata |-> [priority |-> q.priority, allow_batching |-> q.allow_batching,
                   require_quality |-> q.require_quality, reasoning |-> q.reasoning],
     content_type |-> q.content_type,
     provider |-> q.provider]

\* Query(**batch[0]): the Query built from a dict of a batch
QueryFromDict(d) ==
    [content |-> d.content, priority |-> d.metadata.priority,
     allow_batching |-> d.metadata.allow_batching,
     require_quality |-> d.metadata.require_quality,
     reasoning |-> d.metadata.reasoning,
     content_type |-> d.content_type, provider |-> None, owner |-> "route_query"]

\* Query.with_additional_context writing the key into the metadata of the
\* object itself
WithAdditionalContextInPlace(q) == [q EXCEPT !.reasoning = TRUE]

\* Query.with_additional_context: a copy of the object whose metadata is a
\* new dict, that of the object with the key "reasoning" added
WithAdditionalContext(q) == [q EXCEPT !.reasoning = TRUE, !.owner = "route_query"]

\* the object the caller passed, obj, after stages 1 to 3 of a route_query
\* call whose query is q: query.provider = provider is an assignment to the
\* object passed in, and the enrichment touches it when the enriched query
\* is that object
CallerObject(obj, q, provider, assigned) ==
    IF q.owner # "caller" THEN obj
    ELSE IF ~assigned THEN q
    ELSE LET enriched == WithAdditionalContext([q EXCEPT !.provider = provider])
         IN IF enriched.owner = "caller" THEN enriched
            ELSE [q EXCEPT !.provider = provider]

\* _setup_fallback_strategies
FallbackMap ==
    [m \in {"python", "csharp", "math", "chat"} |->
        CASE m \in {"python", "csharp"} -> "code_generic"
          [] m = "math" -> "math_basic"
          [] m = "chat" -> "generic"]

\* fallback_map.get(query.content_type.split("_")[-1], "generic")
FallbackId(q) ==
    LET module_id == q.content_type[Len(q.content_type)]
    IN IF module_id \in DOMAIN FallbackMap THEN FallbackMap[module_id] ELSE "generic"

\* a frame of the stack: the query of an enclosing route_query call and the
\* way it called route_query again
Frame(q, via) == [query |-> q, via |-> via]

\* _handle_failure(q, e) in a route_query call with the enclosing calls
\* stack, up to the await of fallback.process or to the raise out of the
\* outermost call: query.content_type raises AttributeError on a Query
\* without the attribute, a fallback id that is not registered gives
\* RuntimeError, and an exception that leaves a route_query call is caught
\* by the except branch of the enclosing call, which runs _handle_failure
\* for its own query
RECURSIVE HandleFailure(_, _)
HandleFailure(q, stack) ==
    LET error == IF q.content_type = NoAttr THEN "AttributeError"
                 ELSE IF FallbackId(q) \notin ModuleIds THEN "RuntimeError"
                 ELSE None
    IN IF error = None
       THEN [pc |-> "fallback_call", cur |-> q, stack |-> stack, error |-> None]
       ELSE IF stack = <<>>
       THEN [pc |-> "done", cur |-> q, stack |-> stack, error |-> error]
       ELSE HandleFailure(stack[Len(stack)].query, SubSeq(stack, 1, Len(stack) - 1))

\* the except branch of the route_query call of caller c, whose query is q
Fail(c, q, stack) ==
    LET r == HandleFailure(q, stack)
    IN /\ orch_pc' = [orch_pc EXCEPT ![c] = r.pc]
       /\ orch_cur' = [orch_cur EXCEPT ![c] = r.cur]
       /\ orch_stack' = [orch_stack EXCEPT ![c] = r.stack]
       /\ orch_response' = IF r.pc = "done"
                           THEN [orch_response EXCEPT ![c] = Raised(r.error)]
                           ELSE orch_response

\* route_query from the batch it got from add_query on: a batch of more than
\* one query goes to _batch_process, which picks a provider of the batch
\* that supports batching and awaits its batch_complete (no such provider:
\* next() raises StopIteration, and the except branch routes batch[0]
\* again); any other batch leads to module.process(enriched_query).
\* q is the Query of the call, p the provider the iteration over the set of
\* providers yields first.
AfterBatch(c, q, stack, batch, p) ==
    IF Len(batch) > 1
    THEN IF \E i \in DOMAIN batch : SupportsBatching(batch[i].provider)
         THEN /\ \E i \in DOMAIN batch : batch[i].provider = p
              /\ SupportsBatching(p)
              /\ orch_pc' = [orch_pc EXCEPT ![c] = "batch_call"]
              /\ orch_work' = [orch_work EXCEPT ![c] =
                    [provider |-> p, batch |-> batch, call |-> Len(provider_calls) + 1]]
              /\ provider_calls' = Append(provider_calls,
                    [provider |-> p, prompts |-> [i \in DOMAIN batch |-> batch[i].content],
                     raised |-> FALSE])
              /\ orch_cur' = [orch_cur EXCEPT ![c] = q]
              /\ orch_stack' = [orch_stack EXCEPT ![c] = stack]
         ELSE /\ orch_pc' = [orch_pc EXCEPT ![c] = "rerouting"]
              /\ orch_cur' = [orch_cur EXCEPT ![c] = QueryFromDict(batch[1])]
              /\ orch_stack' = [orch_stack EXCEPT ![c] = Append(stack, Frame(q, "batch"))]
              /\ UNCHANGED <<orch_work, provider_calls>>
    ELSE /\ orch_pc' = [orch_pc EXCEPT ![c] = "module_call"]
         /\ orch_cur' = [orch_cur EXCEPT ![c] = q]
         /\ orch_stack' = [orch_stack EXCEPT ![c] = stack]
         /\ UNCHANGED <<orch_work, provider_calls>>

\* the callers whose calls make up scenario C, once the add_query call of
\* this step is the last of the first max_batch_size calls, all made in a row
\* for one batching-capable provider
ScenarioAfterAdd(c, q) ==
    IF /\ b_adds = MaxBatchSize - 1
       /\ b_burst = MaxBatchSize - 1
       /\ SupportsBatching(q.provider)
       /\ \A i \in DOMAIN pending : pending[i].query.provider = q.provider
    THEN {d \in Callers : d = c \/ IsWaiting(d)}
    ELSE scenario

\* route_query from stage 3 to its next await: add_query when the query
\* allows batching, else module.process
SubmitStep(c, q, stack) ==
    IF q.allow_batching
    THEN /\ AddQueryStep(c, ModelDump(q), q.priority)
         /\ scenario' = ScenarioAfterAdd(c, q)
         /\ IF b_result'[c].outcome = "batch"
            THEN \E p \in OrchProviders : AfterBatch(c, q, stack, b_result'[c].batch, p)
            ELSE /\ orch_pc' = [orch_pc EXCEPT ![c] = "in_batcher"]
                 /\ orch_cur' = [orch_cur EXCEPT ![c] = q]
                 /\ orch_stack' = [orch_stack EXCEPT ![c] = stack]
                 /\ UNCHANGED <<orch_work, provider_calls>>
    ELSE /\ orch_pc' = [orch_pc EXCEPT ![c] = "module_call"]
         /\ orch_cur' = [orch_cur EXCEPT ![c] = q]
         /\ orch_stack' = [orch_stack EXCEPT ![c] = stack]
         /\ UNCHANGED <<batcherVars, orch_work, provider_calls, scenario>>

\* route_query of the Query q up to its first await after stage 2;
\* assigned: query.provider = provider went through, else it raised and the
\* except branch of route_query runs _handle_failure
FromStageOne(c, q, stack, provider, assigned) ==
    IF assigned
    THEN /\ SubmitStep(c, WithAdditionalContext([q EXCEPT !.provider = provider]), stack)
         /\ UNCHANGED orch_response
    ELSE /\ Fail(c, q, stack)
         /\ UNCHANGED <<batcherVars, orch_work, provider_calls, scenario>>

\* a caller calls route_query(query); the content of the query of caller c
\* is c
RouteQuery(c, priority, allow_batching, content_type, provider, assigned) ==
    LET q == [content |-> c, priority |-> priority,
              allow_batching |-> allow_batching, require_quality |-> FALSE,
              reasoning |-> FALSE,
              content_type |-> content_type, provider |-> None, owner |-> "caller"]
    IN
    /\ orch_pc[c] = "idle"
    /\ orch_query' = [orch_query EXCEPT ![c] = CallerObject(q, q, provider, assigned)]
    /\ FromStageOne(c, q, <<>>, provider, assigned)
    /\ UNCHANGED notOrchVars

\* route_query called from within route_query: by the except branch of
\* _batch_process with Query(**batch[0]), or by _retry_with_stricter_llm;
\* its stage 1 selects a provider again
Reroute(c, provider, assigned) ==
    /\ orch_pc[c] = "rerouting"
    /\ FromStageOne(c, orch_cur[c], orch_stack[c], provider, assigned)
    /\ orch_query' = [orch_query EXCEPT ![c] =
          CallerObject(@, orch_cur[c], provider, assigned)]
    /\ UNCHANGED notOrchVars

\* add_query returns a batch to a suspended route_query call
OrchAcquire(c) ==
    /\ orch_pc[c] = "in_batcher"
    /\ AcquireStep(c)
    /\ \E p \in OrchProviders :
          AfterBatch(c, orch_cur[c], orch_stack[c], b_result'[c].batch, p)
    /\ UNCHANGED <<orch_query, orch_response, scenario>>
    /\ UNCHANGED notOrchVars

\* add_query raises TimeoutError in a suspended route_query call: the except
\* branch of route_query runs _handle_failure
OrchTimeout(c) ==
    /\ orch_pc[c] = "in_batcher"
    /\ TimeoutStep(c)
    /\ Fail(c, orch_cur[c], orch_stack[c])
    /\ UNCHANGED <<orch_query, orch_work, provider_calls, scenario>>
    /\ UNCHANGED notOrchVars

\* background_flush, started by Orchestrator.__init__
OrchFlush ==
    /\ FlushStep
    /\ UNCHANGED orchVars
    /\ UNCHANGED notOrchVars

\* _batch_process: batch_complete returned one response per prompt; the
\* response returned is the one zipped with the first prompt that equals
\* batch[0]["content"]; it is not validated
OrchBatchReturn(c) ==
    /\ orch_pc[c] = "batch_call"
    /\ orch_pc' = [orch_pc EXCEPT ![c] = "done"]
    /\ orch_response' = [orch_response EXCEPT ![c] =
          ResponseFor("provider", orch_work[c].batch[1].content)]
    /\ UNCHANGED <<orch_query, orch_cur, orch_stack, orch_work, provider_calls, scenario>>
    /\ UNCHANGED batcherVars
    /\ UNCHANGED notOrchVars

\* _batch_process: batch_complete raised, batch[0] is routed again
OrchBatchRaise(c) ==
    /\ orch_pc[c] = "batch_call"
    /\ orch_pc' = [orch_pc EXCEPT ![c] = "rerouting"]
    /\ orch_cur' = [orch_cur EXCEPT ![c] = QueryFromDict(orch_work[c].batch[1])]
    /\ orch_stack' = [orch_stack EXCEPT ![c] = Append(@, Frame(orch_cur[c], "batch"))]
    /\ provider_calls' = [provider_calls EXCEPT ![orch_work[c].call].raised = TRUE]
    /\ UNCHANGED <<orch_query, orch_work, orch_response, scenario>>
    /\ UNCHANGED batcherVars
    /\ UNCHANGED notOrchVars

\* _retry_with_stricter_llm: the flag is set in the metadata of the query
\* it is given, the enriched query of the call, and route_query is called
\* with it
RetryWithStricterLlm(q) == [q EXCEPT !.require_quality = TRUE]

\* what ContextManager.process_interaction does after it has appended its
\* entry to the interaction log: the expansion of the knowledge graph
\* returns or raises
RecordingOutcomes == {"ok", "raise"}

\* process_interaction(query, response): the entry is appended first
ProcessInteraction(q, response) ==
    Append(interaction_log, [query |-> q.content, response |-> response])

\* module.process(enriched_query) returned and validator.validate gave
\* passed.  When it passed, the response is augmented and
\* process_interaction is called with it inside the try of route_query:
\* the response is returned when the recording returns, and the except
\* branch runs _handle_failure when it raises.  When it did not pass,
\* _handle_quality_failure retries
OrchModuleReturnWith(c, passed, recording) ==
    /\ orch_pc[c] = "module_call"
    /\ IF passed
       THEN /\ interaction_log' =
                  ProcessInteraction(orch_cur[c], ResponseFor("module", orch_cur[c].content))
            /\ IF recording = "ok"
               THEN /\ orch_pc' = [orch_pc EXCEPT ![c] = "done"]
                    /\ orch_response' = [orch_response EXCEPT ![c] =
                          ResponseFor("module", orch_cur[c].content)]
                    /\ UNCHANGED <<orch_cur, orch_stack>>
               ELSE Fail(c, orch_cur[c], orch_stack[c])
            /\ UNCHANGED orch_query
       ELSE /\ Len(orch_stack[c]) < MaxDepth
            /\ orch_pc' = [orch_pc EXCEPT ![c] = "rerouting"]
            /\ orch_cur' = [orch_cur EXCEPT ![c] = RetryWithStricterLlm(@)]
            /\ orch_query' = IF orch_cur[c].owner = "caller"
                             THEN [orch_query EXCEPT ![c] =
                                      RetryWithStricterLlm(orch_cur[c])]
                             ELSE orch_query
            /\ orch_stack' = [orch_stack EXCEPT ![c] = Append(@, Frame(orch_cur[c], "retry"))]
            /\ UNCHANGED <<orch_response, interaction_log>>
    /\ UNCHANGED <<orch_work, provider_calls, scenario>>
    /\ UNCHANGED batcherVars
    /\ UNCHANGED notOrchNorContextVars

\* module.process returned and the recording of the interaction returned
OrchModuleReturn(c, passed) == OrchModuleReturnWith(c, passed, "ok")

\* module.process returned a response that passed, and the recording of the
\* interaction raised
OrchRecordingRaise(c) == OrchModuleReturnWith(c, TRUE, "raise")

\* module.process(enriched_query) raised: _handle_failure
OrchModuleRaise(c) ==
    /\ orch_pc[c] = "module_call"
    /\ Fail(c, orch_cur[c], orch_stack[c])
    /\ UNCHANGED <<orch_query, orch_work, provider_calls, scenario>>
    /\ UNCHANGED batcherVars
    /\ UNCHANGED notOrchVars

\* _handle_failure: fallback.process(query) returned and
\* process_interaction(query, response) is called: the response is returned
\* when the recording returns; when it raises, the exception leaves this
\* route_query call, and the enclosing call, if any, handles it
OrchFallbackReturnWith(c, recording) ==
    /\ orch_pc[c] = "fallback_call"
    /\ interaction_log' =
          ProcessInteraction(orch_cur[c], ResponseFor("fallback", orch_cur[c].content))
    /\ IF recording = "ok"
       THEN /\ orch_pc' = [orch_pc EXCEPT ![c] = "done"]
            /\ orch_response' = [orch_response EXCEPT ![c] =
                  ResponseFor("fallback", orch_cur[c].content)]
            /\ UNCHANGED <<orch_cur, orch_stack>>
       ELSE IF orch_stack[c] = <<>>
       THEN /\ orch_pc' = [orch_pc EXCEPT ![c] = "done"]
            /\ orch_response' = [orch_response EXCEPT ![c] = Raised("RecordingError")]
            /\ UNCHANGED <<orch_cur, orch_stack>>
       ELSE LET stack == orch_stack[c]
            IN Fail(c, stack[Len(stack)].query, SubSeq(stack, 1, Len(stack) - 1))
    /\ UNCHANGED <<orch_query, orch_work, provider_calls, scenario>>
    /\ UNCHANGED batcherVars
    /\ UNCHANGED notOrchNorContextVars

\* fallback.process returned and the recording of the interaction returned
OrchFallbackReturn(c) == OrchFallbackReturnWith(c, "ok")

\* fallback.process returned and the recording of the interaction raised
OrchFallbackRecordingRaise(c) == OrchFallbackReturnWith(c, "raise")

\* _handle_failure: fallback.process(query) raised; the exception leaves
\* this route_query call, and the enclosing call, if any, handles it
OrchFallbackRaise(c) ==
    /\ orch_pc[c] = "fallback_call"
    /\ IF orch_stack[c] = <<>>
       THEN /\ orch_pc' = [orch_pc EXCEPT ![c] = "done"]
            /\ orch_response' = [orch_response EXCEPT ![c] = Raised("FallbackError")]
            /\ UNCHANGED <<orch_cur, orch_stack>>
       ELSE LET stack == orch_stack[c]
            IN Fail(c, stack[Len(stack)].query, SubSeq(stack, 1, Len(stack) - 1))
    /\ UNCHANGED <<orch_query, orch_work, provider_calls, scenario>>
    /\ UNCHANGED batcherVars
    /\ UNCHANGED notOrchVars

\* concurrent route_query calls for queries of one content type whose module
\* responses pass validation
OrchNext ==
    \/ \E c \in OrchCallers, priority \in Priorities, allow_batching \in BOOLEAN,
          provider \in OrchProviders, assigned \in BOOLEAN :
             RouteQuery(c, priority, allow_batching, <<"code", "python">>, provider,
                        assigned)
    \/ \E c \in OrchCallers, provider \in OrchProviders, assigned \in BOOLEAN :
          Reroute(c, provider, assigned)
    \/ \E c \in OrchCallers : OrchAcquire(c)
    \/ \E c \in OrchCallers : OrchTimeout(c)
    \/ OrchFlush
    \/ \E c \in OrchCallers : OrchBatchReturn(c)
    \/ \E c \in OrchCallers : OrchBatchRaise(c)
    \/ \E c \in OrchCallers : OrchModuleReturn(c, TRUE)
    \/ \E c \in OrchCallers : OrchModuleRaise(c)
    \/ \E c \in OrchCallers : OrchFallbackReturn(c)
    \/ \E c \in OrchCallers : OrchFallbackRaise(c)

\* one route_query call at a time, for queries of any content type, with
\* responses that pass validation or fail it
PipelineNext ==
    \/ \E priority \in Priorities, allow_batching \in BOOLEAN,
          content_type \in ContentTypes, provider \in OrchProviders,
          assigned \in BOOLEAN :
             RouteQuery(1, priority, allow_batching, content_type, provider, assigned)
    \/ \E provider \in OrchProviders, assigned \in BOOLEAN : Reroute(1, provider, assigned)
    \/ OrchAcquire(1)
    \/ OrchTimeout(1)
    \/ OrchFlush
    \/ \E passed \in BOOLEAN : OrchModuleReturn(1, passed)
    \/ OrchModuleRaise(1)
    \/ OrchFallbackReturn(1)
    \/ OrchFallbackRaise(1)

\* one route_query call at a time, with a recording of the interaction that
\* returns or raises
RecordingNext ==
    \/ PipelineNext
    \/ OrchRecordingRaise(1)
    \/ OrchFallbackRecordingRaise(1)

(***************************************************************************)
(*                           PerformanceTracker                            *)
(*                                                                         *)
(* A sample's timestamp is the tracker's clock at record_metric, compared  *)
(* as a time with time.time() - 60; latencies are whole milliseconds.      *)
(* The names time and np, which tracker.py uses without importing them,    *)
(* are taken as the modules they name.                                     *)
(* The stored sessions of data/performance_metrics.json are the empty list *)
(* _init_storage writes: nothing in the repository writes the file again.  *)
(***************************************************************************)
\* ---- bounds of the tracker model
MaxSamples == 2
MaxPerfTime == 60

WindowSecs == 60
HashPrefixLen == 8

\* what record_metric is offered: sources, latencies (ms), query hashes (a
\* hash is a sequence of hexadecimal digits)
Sources == {"llm", "gpt-4"}
LatencyChoices == {1, 3}
HashChoices == {<<1, 2, 3, 4, 5, 6, 7, 8, 9>>}

\* s[:n]
Prefix(s, n) == SubSeq(s, 1, Min(n, Len(s)))

TrackerInit ==
    /\ perf_now = 0
    /\ session_metrics = <<>>

\* record_metric(source, latency, success, query_hash)
RecordMetric(source, latency_ms, success, query_hash) ==
    /\ Len(session_metrics) < MaxSamples
    /\ session_metrics' = Append(session_metrics,
           [timestamp |-> perf_now, source |-> source, latency_ms |-> latency_ms,
            success |-> success, query_hash |-> Prefix(query_hash, HashPrefixLen)])
    /\ UNCHANGED <<perf_now, health_status, weights, history, route_result,
                   min_requests>>
    /\ UNCHANGED notRoutingVars

\* _load_history: the stored sessions, then the session's samples
LoadHistory == <<>> \o session_metrics

\* get_provider_metrics, per source of the last 60 seconds: the number of
\* samples, the sum of their latencies and the number of failed ones, from
\* which requests_per_second = count / 60,
\* avg_latency = latency_ms_sum / count / 1000 and error_rate = errors / count
GetProviderMetrics ==
    LET window == SelectSeq(LoadHistory, LAMBDA m : m.timestamp > perf_now - WindowSecs)
        of(p) == SelectSeq(window, LAMBDA m : m.source = p)
    IN [p \in {window[i].source : i \in DOMAIN window} |->
           [count |-> Len(of(p)),
            latency_ms_sum |-> SumSeq([i \in DOMAIN of(p) |-> of(p)[i].latency_ms]),
            errors |-> Len(SelectSeq(of(p), LAMBDA m : ~m.success))]]

\* the sources get_recommended_source ranks, in the order of its loop
SolutionSources == <<"graph", "rule", "llm", "learned_rule">>

\* what ReasoningEngine.process hands to the tracker: the source of its
\* result, and QueryHasher.hash_query(query), a hexdigest, longer than the
\* prefix record_metric keeps
TrackerSources == {"graph", "rule", "llm"}
TrackerHashes == {<<1, 2, 3, 4, 5, 6, 7, 8, 9>>, <<9, 8, 7, 6, 5, 4, 3, 2, 1>>}

NoRecommendation == [query_hash |-> <<>>, source |-> None]

\* sorted(latencies)
RECURSIVE InsertInt(_, _)
InsertInt(sorted, x) ==
    IF sorted = <<>> THEN <<x>>
    ELSE IF x < Head(sorted) THEN <<x>> \o sorted
    ELSE <<Head(sorted)>> \o InsertInt(Tail(sorted), x)

RECURSIVE SortedInts(_)
SortedInts(s) == IF s = <<>> THEN <<>> ELSE InsertInt(SortedInts(Tail(s)), Head(s))

\* twice statistics.median of a non-empty list: the middle value, or the
\* mean of the two middle values
MedianTimes2(s) ==
    LET sorted == SortedInts(s)
        n == Len(s)
    IN IF n % 2 = 1 THEN 2 * sorted[(n + 1) \div 2]
       ELSE sorted[n \div 2] + sorted[n \div 2 + 1]

\* the last sample of the history whose query_hash equals the hash, 0 for none
LastMatch(hist, query_hash) ==
    LET matches == {i \in DOMAIN hist : hist[i].query_hash = query_hash}
    IN IF matches = {} THEN 0 ELSE CHOOSE i \in matches : \A j \in matches : j <= i

\* success_rates and latencies of a source with history: the numbers of
\* its successful samples and of its samples, and twice its median latency
SourceStats(hist, source) ==
    LET source_metrics == SelectSeq(hist, LAMBDA m : m.source = source)
    IN [successes |-> Len(SelectSeq(source_metrics, LAMBDA m : m.success)),
        count |-> Len(source_metrics),
        median2 |-> MedianTimes2([i \in DOMAIN source_metrics |->
                                     source_metrics[i].latency_ms])]

\* the comparison of the keys with the higher latency preferred
KeyLessSlowFirst(a, b) ==
    \/ a.successes * b.count < b.successes * a.count
    \/ /\ a.successes * b.count = b.successes * a.count
       /\ a.median2 < b.median2

\* (success_rates[a], -latencies[a]) < (success_rates[b], -latencies[b])
KeyLess(a, b) ==
    \/ a.successes * b.count < b.successes * a.count
    \/ /\ a.successes * b.count = b.successes * a.count
       /\ a.median2 > b.median2

\* max(success_rates.keys(), key=...): the first of the greatest keys, in
\* the order the loop inserted them
RECURSIVE MaxByKey(_, _, _)
MaxByKey(keys, stats, best) ==
    IF keys = <<>> THEN best
    ELSE MaxByKey(Tail(keys), stats,
                  IF KeyLess(stats[best], stats[Head(keys)]) THEN Head(keys) ELSE best)

\* get_recommended_source that ranks the sources without looking for the
\* hash in the history
GetRecommendedSourceRankOnly(query_hash) ==
    LET hist == LoadHistory
        keys == SelectSeq(SolutionSources,
                          LAMBDA src : \E i \in DOMAIN hist : hist[i].source = src)
        stats == [src \in Range(keys) |-> SourceStats(hist, src)]
    IN IF keys # <<>> THEN MaxByKey(Tail(keys), stats, Head(keys)) ELSE "llm"

\* get_recommended_source(query_hash)
GetRecommendedSource(query_hash) ==
    LET hist == LoadHistory
        last == IF query_hash # <<>> THEN LastMatch(hist, query_hash) ELSE 0
        keys == SelectSeq(SolutionSources,
                          LAMBDA src : \E i \in DOMAIN hist : hist[i].source = src)
        stats == [src \in Range(keys) |-> SourceStats(hist, src)]
    IN IF last # 0 /\ hist[last].success THEN hist[last].source
       ELSE IF keys # <<>> THEN MaxByKey(Tail(keys), stats, Head(keys))
       ELSE "llm"

\* a caller calls get_recommended_source(query_hash)
GetRecommendedSourceCall(query_hash) ==
    /\ recommended' = [query_hash |-> query_hash,
                       source |-> GetRecommendedSource(query_hash)]
    /\ UNCHANGED <<coreVars, writerVars, backgroundVars, contextVars, poolVars>>

\* get_available_providers
GetAvailableProviders == <<"gpt-4", "gpt-3.5", "claude-2", "llama2", "local">>

\* the tracker's clock moves past the window
PerfTick ==
    /\ perf_now < MaxPerfTime
    /\ perf_now' = perf_now + WindowSecs
    /\ UNCHANGED <<session_metrics, health_status, weights, history, route_result,
                   min_requests>>
    /\ UNCHANGED notRoutingVars

(***************************************************************************)
(*                         SelfHealingController                           *)
(*                                                                         *)
(* A health record is [status, failure_count, last_error]; the status None *)
(* stands for a module id without record.  last_checked is written and     *)
(* never read, and is left out.                                            *)
(***************************************************************************)
\* what module.health_check() does: it returns a dict without or with the
\* key "degraded", or raises; "raise" and "timeout" are the messages str(e)
\* of two exceptions
ProbeOutcomes == {"healthy", "degraded", "raise"}
ProbeOutcomesAll == ProbeOutcomes \cup {"timeout", "refused"}

\* what module.initialize() does at the call of _attempt_recovery: the
\* initialize of BaseModule and of every module of the repository is a
\* coroutine function, so the call, not awaited, builds a coroutine object
\* and returns
ReinitOutcomes == {"ok"}

\* what the body of a module's initialize does when it runs
InitializeBodies == ReinitOutcomes \cup {"raise"}

\* module.initialize() as _attempt_recovery calls it, without await: the
\* call of a coroutine function builds the coroutine object and returns,
\* and the body does not run
InitializeCall(body) == "ok"

RecoveryThreshold == 3

NoHealth == [status |-> None, failure_count |-> 0, last_error |-> None]

HealingInit == health_status = [m \in ModuleIds |-> NoHealth]

\* _attempt_recovery
AttemptRecovery(health, reinit) ==
    IF InitializeCall(reinit) = "ok"
    THEN [health EXCEPT !.status = "HEALTHY", !.failure_count = 0]
    ELSE [health EXCEPT !.status = "FAILED"]

\* _handle_module_failure that leaves last_error of an existing record alone
HandleModuleFailureFirstError(health, error, reinit) ==
    LET failed == IF health.status = None
                  THEN [status |-> "FAILED", failure_count |-> 1, last_error |-> error]
                  ELSE [status |-> "FAILED", failure_count |-> health.failure_count + 1,
                        last_error |-> health.last_error]
    IN IF failed.failure_count > RecoveryThreshold
       THEN AttemptRecovery(failed, reinit)
       ELSE failed

\* _handle_module_failure
HandleModuleFailure(health, error, reinit) ==
    LET failed == IF health.status = None
                  THEN [status |-> "FAILED", failure_count |-> 1, last_error |-> error]
                  ELSE [status |-> "FAILED", failure_count |-> health.failure_count + 1,
                        last_error |-> error]
    IN IF failed.failure_count > RecoveryThreshold
       THEN AttemptRecovery(failed, reinit)
       ELSE failed

\* the body of the loop with the record of a successful probe keeping the
\* failure count of the record it replaces
ProbeModuleKeepCount(health, probe, reinit) ==
    IF probe \notin {"healthy", "degraded"}
    THEN HandleModuleFailure(health, probe, reinit)
    ELSE [status |-> IF probe = "degraded" THEN "DEGRADED" ELSE "HEALTHY",
          failure_count |-> health.failure_count, last_error |-> None]

\* the body of the loop of check_all_modules, for one module
ProbeModule(health, probe, reinit) ==
    IF probe \notin {"healthy", "degraded"}
    THEN HandleModuleFailure(health, probe, reinit)
    ELSE [status |-> IF probe = "degraded" THEN "DEGRADED" ELSE "HEALTHY",
          failure_count |-> 0, last_error |-> None]

\* check_all_modules: it has no await inside, so the loop over the registry
\* is one step
CheckAllModules(probe, reinit) ==
    /\ health_status' = [m \in ModuleIds |->
                            ProbeModule(health_status[m], probe[m], reinit[m])]
    /\ UNCHANGED <<perf_now, session_metrics, weights, history, route_result,
                   min_requests>>
    /\ UNCHANGED notRoutingVars

\* get_available_modules listing the HEALTHY modules only
GetAvailableModulesHealthyOnly ==
    {m \in ModuleIds : health_status[m].status = "HEALTHY"}

\* get_available_modules
GetAvailableModules ==
    {m \in ModuleIds : /\ health_status[m].status # None
                       /\ health_status[m].status # "FAILED"}

(***************************************************************************)
(*                              LoadBalancer                               *)
(*                                                                         *)
(* A weight is an exact fraction [num, den] in lowest terms.               *)
(***************************************************************************)
\* ---- bound: select_provider calls recorded in the history
MaxHistory == 1

HistoryMaxLen == 100
ContentPrefixLen == 50

\* load_balancing.min_requests of the configuration: absent (the default 20
\* applies) or 0
DefaultMinRequests == 20
MinRequestsChoices == {DefaultMinRequests, 0}

\* the contents of the queries offered to the routers (sequences of
\* characters)
QueryContents == {<<1>>}

RECURSIVE GCD(_, _)
GCD(a, b) == IF b = 0 THEN a ELSE GCD(b, a % b)

Fraction(n, d) == [num |-> n \div GCD(n, d), den |-> d \div GCD(n, d)]

BalancerInit ==
    /\ weights = [p \in {} |-> Fraction(0, 1)]
    /\ history = <<>>
    /\ min_requests \in MinRequestsChoices

\* requests_per_second / (avg_latency + 1e-6) of a provider is
\*   (count / 60) / (latency_ms_sum / count / 1000 + 1 / 1000000)
\*   = (1000000 / 60) * count^2 / (1000 * latency_ms_sum + count);
\* the factor 1000000 / 60 is common to all providers
RatioNum(m) == m.count * m.count
RatioDen(m) == 1000 * m.latency_ms_sum + m.count

\* update_weights: ratio / total, per provider of the metrics
UpdateWeights(metrics) ==
    LET P == DOMAIN metrics
        den == [p \in P |-> RatioDen(metrics[p])]
        scaled == [p \in P |-> RatioNum(metrics[p]) * ProdOver(P \ {p}, den)]
        total == SumOver(P, scaled)
    IN [p \in P |-> Fraction(scaled[p], total)]

\* deque(maxlen=100).append
DequeAppend(d, x) ==
    IF Len(d) = HistoryMaxLen THEN Append(Tail(d), x) ELSE Append(d, x)

NoRoute == [by |-> None, query |-> [content |-> <<>>], outcome |-> None,
            provider |-> None, tier |-> None]

\* select_provider: np.random.choice over the providers of the weights with
\* the weights as probabilities; it raises ValueError on an empty list
LbSelect(query) ==
    /\ IF DOMAIN weights = {}
       THEN /\ route_result' = [NoRoute EXCEPT !.by = "balancer", !.query = query,
                                                !.outcome = "ValueError"]
            /\ UNCHANGED history
       ELSE \E choice \in DOMAIN weights :
               /\ weights[choice].num > 0
               /\ history' = DequeAppend(history,
                                 <<Prefix(query.content, ContentPrefixLen), choice>>)
               /\ route_result' = [by |-> "balancer", query |-> query, outcome |-> "ok",
                                   provider |-> choice, tier |-> "balanced"]
    /\ UNCHANGED <<perf_now, session_metrics, health_status, weights, min_requests>>
    /\ UNCHANGED notRoutingVars

\* select_provider, as long as the history is short
LbSelectProvider(query) ==
    /\ Len(history) < MaxHistory
    /\ LbSelect(query)

\* one round of the loop of _update_balancer_weights (orchestrator.py) or of
\* _update_weights_loop (service.py) that finds the history long enough
UpdateBalancerWeights ==
    /\ Len(history) >= min_requests
    /\ weights' = UpdateWeights(GetProviderMetrics)
    /\ UNCHANGED <<perf_now, session_metrics, health_status, history, route_result,
                   min_requests>>
    /\ UNCHANGED notRoutingVars

(***************************************************************************)
(*                               SLARouter                                 *)
(*                                                                         *)
(* Accuracies are in percent and latencies in milliseconds.  A score is    *)
(* [inf, num, den]: num / den, or inf (the float division by a zero cost   *)
(* penalty of numpy).                                                      *)
(***************************************************************************)
Tiers ==
    [t \in {"critical", "standard", "economy"} |->
        CASE t = "critical" -> [name |-> "critical", min_accuracy |-> 95,
                                max_latency |-> 1500,
                                allowed_providers |-> <<"gpt-4", "claude-2", "vllm">>,
                                cost_multiplier |-> 2]
          [] t = "standard" -> [name |-> "standard", min_accuracy |-> 85,
                                max_latency |-> 3000,
                                allowed_providers |-> <<"gpt-3.5", "claude-instant", "llama2">>,
                                cost_multiplier |-> 1]
          [] t = "economy"  -> [name |-> "economy", min_accuracy |-> 70,
                                max_latency |-> 5000,
                                allowed_providers |-> <<"llama2", "local">>,
                                cost_multiplier |-> 1]]

\* query.get(key, default)
Get(query, key, default) == IF key \in DOMAIN query THEN query[key] ELSE default

\* the queries offered to select_provider; intent and context are sequences
\* of words.  The third is the form route_query passes: the numeric
\* metadata priority as user_priority.
SlaQueries ==
    {[content |-> c, user_priority |-> "high"] : c \in QueryContents}
    \cup {[content |-> c, intent |-> <<"fix", "error">>] : c \in QueryContents}
    \cup {[content |-> c, context |-> <<>>, user_priority |-> "1"] : c \in QueryContents}
    \cup {[content |-> c] : c \in QueryContents}

\* what performance.get_provider_metrics(provider) yields for a provider:
\* tracker.py has no such one-argument form and no keys "accuracy" and
\* "latency", so the values are inputs
MetricChoices == {[accuracy |-> 90, latency |-> 50], [accuracy |-> 99, latency |-> 2000]}

\* the same for all providers: one value for every provider, or one value
\* for the first provider of a tier and another for the others
MetricTables ==
    {[p \in Range(GetAvailableProviders) |-> m] : m \in MetricChoices}
    \cup {[p \in Range(GetAvailableProviders) |->
              IF p \in {"gpt-4", "gpt-3.5", "llama2"}
              THEN [accuracy |-> 90, latency |-> 50]
              ELSE [accuracy |-> 99, latency |-> 2000]]}

\* get_spend_forecast: replace(month=now.month+1) raises ValueError in
\* December, config["monthly_budget"] raises KeyError without the key;
\* daily_avg = current_spend / days_elapsed is kept as the pair
GetSpendForecast ==
    IF today.month + 1 > 12
    THEN [outcome |-> "ValueError", current_spend |-> 0, days_in_month |-> 0,
          days_elapsed |-> 0, budget_remaining |-> 0]
    ELSE IF "monthly_budget" \notin DOMAIN cost_config
    THEN [outcome |-> "KeyError", current_spend |-> 0, days_in_month |-> 0,
          days_elapsed |-> 0, budget_remaining |-> 0]
    ELSE [outcome |-> "ok", current_spend |-> current_spend,
          days_in_month |-> DaysInMonth(today.year, today.month),
          days_elapsed |-> today.day,
          budget_remaining |-> cost_config["monthly_budget"] - current_spend]

\* _determine_tier with the budget consulted before the priority flag
DetermineTierBudgetFirst(query) ==
    LET budget_status == GetSpendForecast
    IN IF budget_status.outcome # "ok"
       THEN [outcome |-> budget_status.outcome, tier |-> None]
       ELSE IF budget_status.current_spend * 10
                  > budget_status.budget_remaining * budget_status.days_elapsed
       THEN [outcome |-> "ok", tier |-> "economy"]
       ELSE IF Get(query, "user_priority", None) = "high"
       THEN [outcome |-> "ok", tier |-> "critical"]
       ELSE IF \/ "error" \in Range(Get(query, "intent", <<>>))
               \/ "production" \in Range(Get(query, "context", <<>>))
       THEN [outcome |-> "ok", tier |-> "critical"]
       ELSE [outcome |-> "ok", tier |-> "standard"]

\* _determine_tier; burn_rate > budget_remaining / 10 with
\* burn_rate = current_spend / days_elapsed
DetermineTier(query) ==
    IF Get(query, "user_priority", None) = "high"
    THEN [outcome |-> "ok", tier |-> "critical"]
    ELSE IF \/ "error" \in Range(Get(query, "intent", <<>>))
            \/ "production" \in Range(Get(query, "context", <<>>))
    THEN [outcome |-> "ok", tier |-> "critical"]
    ELSE LET budget_status == GetSpendForecast
         IN IF budget_status.outcome # "ok"
            THEN [outcome |-> budget_status.outcome, tier |-> None]
            ELSE IF budget_status.current_spend * 10
                       > budget_status.budget_remaining * budget_status.days_elapsed
            THEN [outcome |-> "ok", tier |-> "economy"]
            ELSE [outcome |-> "ok", tier |-> "standard"]

\* provider.split('-')[0] for the providers of get_available_providers
SplitDash(provider) ==
    CASE provider \in {"gpt-4", "gpt-3.5"} -> "gpt"
      [] provider = "claude-2" -> "claude"
      [] OTHER -> provider

\* _score_provider: mean(accuracy / min_accuracy, max_latency / latency)
\* / cost_penalty, as a fraction in lowest terms.  The rates of the ledger
\* are multiples of 100 millionths of a dollar, and the penalty is kept in
\* that unit.
ScoreProvider(provider, tier, metrics) ==
    LET latency == Max(metrics.latency, 100)
        cost_rate == GetRate(SplitDash(provider), provider)
        cost_penalty == (cost_rate.input \div 100) * tier.cost_multiplier
        score == Fraction(metrics.accuracy * latency + tier.max_latency * tier.min_accuracy,
                          2 * tier.min_accuracy * latency * cost_penalty)
    IN [inf |-> cost_penalty = 0, num |-> score.num, den |-> score.den]

ScoreLess(a, b) ==
    IF a.inf THEN FALSE ELSE IF b.inf THEN TRUE ELSE a.num * b.den < b.num * a.den

\* sorted(candidates, key=score): ascending and stable
RECURSIVE StableInsert(_, _, _)
StableInsert(sorted, x, key) ==
    IF sorted = <<>> THEN <<x>>
    ELSE IF ScoreLess(key[x], key[Head(sorted)]) THEN <<x>> \o sorted
    ELSE <<Head(sorted)>> \o StableInsert(Tail(sorted), x, key)

RECURSIVE SortedByScore(_, _)
SortedByScore(s, key) ==
    IF s = <<>> THEN <<>>
    ELSE StableInsert(SortedByScore(SubSeq(s, 1, Len(s) - 1), key), s[Len(s)], key)

Candidates(tier) ==
    SelectSeq(GetAvailableProviders, LAMBDA p : p \in Range(tier.allowed_providers))

\* select_provider
SlaSelectProvider(query, metrics) ==
    LET determined == DetermineTier(query)
    IN
    /\ IF determined.outcome # "ok"
       THEN route_result' = [NoRoute EXCEPT !.by = "sla", !.query = query,
                                            !.outcome = determined.outcome]
       ELSE LET tier == Tiers[determined.tier]
                candidates == Candidates(tier)
                score == [p \in Range(candidates) |-> ScoreProvider(p, tier, metrics[p])]
                ranked == SortedByScore(candidates, score)
            IN IF ranked = <<>>
               THEN route_result' = [by |-> "sla", query |-> query,
                                     outcome |-> "IndexError",
                                     provider |-> None, tier |-> tier.name]
               ELSE route_result' = [by |-> "sla", query |-> query, outcome |-> "ok",
                                     provider |-> ranked[1], tier |-> tier.name]
    /\ UNCHANGED <<perf_now, session_metrics, health_status, weights, history,
                   min_requests>>
    /\ UNCHANGED notRoutingVars

(***************************************************************************)
(*        The routers, the tracker and the healing controller together     *)
(***************************************************************************)
RoutingInit ==
    /\ TrackerInit
    /\ HealingInit
    /\ BalancerInit
    /\ route_result = NoRoute

\* the same with the default configuration of the balancer
RoutingInitDefault == RoutingInit /\ min_requests = DefaultMinRequests

\* the metadata of a query: the priority key absent, or present with a value
PriorityFlags == {<<FALSE, 0>>} \cup {<<TRUE, p>> : p \in 0..MaxPriority}

\* query.metadata.get("priority", default): the numeric default is 0, the
\* default of the dict handed to the SLARouter is "normal"; a number handed
\* on is written as its numeral
PriorityOr0(flag) == IF flag[1] THEN flag[2] ELSE 0
PriorityOrNormal(flag) ==
    IF ~flag[1] THEN "normal"
    ELSE CASE flag[2] = 0 -> "0" [] flag[2] = 1 -> "1" [] OTHER -> "2"

\* stage 1 with every query sent to the SLARouter
RouteStageOneAllSla(content, flag, metrics) ==
    SlaSelectProvider([content |-> content, context |-> <<>>,
                       user_priority |-> PriorityOrNormal(flag)], metrics)

\* stage 1 of route_query: the provider selection, by the SLARouter for a
\* positive priority and by the LoadBalancer otherwise, giving the routing
\* decision {provider, tier}
RouteStageOne(content, flag, metrics) ==
    IF PriorityOr0(flag) > 0
    THEN SlaSelectProvider([content |-> content, context |-> <<>>,
                            user_priority |-> PriorityOrNormal(flag)], metrics)
    ELSE LbSelectProvider([content |-> content, context |-> <<>>,
                           priority |-> PriorityOr0(flag)])

RoutingNext ==
    \/ \E s \in Sources, l \in LatencyChoices, h \in HashChoices :
          RecordMetric(s, l, TRUE, h)
    \/ \E probe \in [ModuleIds -> ProbeOutcomes], reinit \in [ModuleIds -> ReinitOutcomes] :
          CheckAllModules(probe, reinit)
    \/ UpdateBalancerWeights
    \/ \E c \in QueryContents : LbSelectProvider([content |-> c])
    \/ \E q \in SlaQueries, metrics \in MetricTables : SlaSelectProvider(q, metrics)

(***************************************************************************)
(*                            QualityValidator                             *)
(*                                                                         *)
(* A response content is a string, held as its lines (split on newline),   *)
(* each line the sequence of its words.  Complexities are in tenths.       *)
(***************************************************************************)
MaxLines == 2
MaxWords == 1
MaxValidations == 3
DefaultMinComplexity == 3

Words == {"def", "x", "code"}
Keywords == {"for", "while", "def", "class"}
TextLines == UNION {[1..n -> Words] : n \in 0..MaxWords}
ResponseContents == UNION {[1..n -> TextLines] : n \in 1..MaxLines}

\* the quality_standards of the configuration: without min_complexity, or
\* with a value
StandardsChoices == {-1, 3, 5}

\* __init__
ValidatorInitWith(standards) ==
    /\ val_standards = standards
    /\ val_min_complexity = IF standards = -1 THEN DefaultMinComplexity ELSE standards
    /\ val_log = <<>>

ValidatorInit == \E standards \in StandardsChoices : ValidatorInitWith(standards)

\* _check_code_safety of a string: "code" in content is the substring
\* test, and content["code"] on a string raises TypeError
CheckCodeSafety(content) ==
    IF \A i \in DOMAIN content : "code" \notin Range(content[i])
    THEN "True"
    ELSE "TypeError"

\* _calculate_complexity
CalculateComplexity(text) ==
    LET nonblank == Cardinality({i \in DOMAIN text : text[i] # <<>>})
        keywords == SumSeq([i \in DOMAIN text |->
                        Cardinality({k \in DOMAIN text[i] : text[i][k] \in Keywords})])
    IN Min(nonblank * 1 + keywords * 3, 10)

\* _check_complexity
CheckComplexity(content) == CalculateComplexity(content) >= val_min_complexity

\* _check_formatting of a string
CheckFormatting(content) == TRUE

\* what the caller holds when validate raised instead of returning
NothingReturned == <<>>

\* validate(response): the checks in the order of the dict display
Validate(content) ==
    IF CheckCodeSafety(content) = "TypeError"
    THEN [outcome |-> "TypeError", passed |-> FALSE,
          checks |-> [safety |-> FALSE, complexity |-> FALSE, formatting |-> FALSE],
          original_response |-> NothingReturned]
    ELSE LET checks == [safety |-> TRUE,
                        complexity |-> CheckComplexity(content),
                        formatting |-> CheckFormatting(content)]
         IN [outcome |-> "ok",
             passed |-> checks.safety /\ checks.complexity /\ checks.formatting,
             checks |-> checks,
             original_response |-> content]

\* validate with a threshold that follows the responses it has passed
ValidateCallRatchet(content) ==
    /\ Len(val_log) < MaxValidations
    /\ val_log' = Append(val_log, [content |-> content, result |-> Validate(content)])
    /\ val_min_complexity' = IF Validate(content).passed
                             THEN Max(val_min_complexity, CalculateComplexity(content))
                             ELSE val_min_complexity
    /\ UNCHANGED val_standards
    /\ UNCHANGED notValVars

\* a call of validate(response)
ValidateCall(content) ==
    /\ Len(val_log) < MaxValidations
    /\ val_log' = Append(val_log, [content |-> content, result |-> Validate(content)])
    /\ UNCHANGED <<val_standards, val_min_complexity>>
    /\ UNCHANGED notValVars

ValidatorNext == \E content \in ResponseContents : ValidateCall(content)

(***************************************************************************)
(*                              RetryHandler                               *)
(*                                                                         *)
(* An exception is [kind, id]: id is the number of the invocation of func  *)
(* that raised it, so that two exceptions of one kind are two objects.     *)
(***************************************************************************)
NumRetryCallers == 2
DefaultMaxRetries == 3
BackoffFactor == 1

RetryCallers == 1..NumRetryCallers
MaxRetriesChoices == {0, 1, 2, DefaultMaxRetries}

\* the exceptions tuple of retry(exceptions), and an exception outside it
RetryableKinds == {"ConnectionError", "TimeoutError"}
ExceptionKinds == RetryableKinds \cup {"ValueError"}

NoException == [kind |-> None, id |-> 0]
NoRetryResult == [outcome |-> None, value |-> 0, exception |-> NoException]

RECURSIVE Pow2(_)
Pow2(n) == IF n = 0 THEN 1 ELSE 2 * Pow2(n - 1)

\* __init__
RetryInitWith(max_retries) ==
    /\ rt_max_retries = max_retries
    /\ rt_pc = [c \in RetryCallers |-> "idle"]
    /\ rt_attempt = [c \in RetryCallers |-> 0]
    /\ rt_last_exception = [c \in RetryCallers |-> NoException]
    /\ rt_delay = [c \in RetryCallers |-> 0]
    /\ rt_log = [c \in RetryCallers |-> <<>>]
    /\ rt_result = [c \in RetryCallers |-> NoRetryResult]

RetryInit == \E max_retries \in MaxRetriesChoices : RetryInitWith(max_retries)

\* wrapper(*args) up to its first await func(): range(max_retries + 1) is
\* not empty for a max_retries of 0 or more
RetryCall(c) ==
    /\ rt_pc[c] = "idle"
    /\ rt_pc' = [rt_pc EXCEPT ![c] = "calling"]
    /\ rt_attempt' = [rt_attempt EXCEPT ![c] = 0]
    /\ rt_last_exception' = [rt_last_exception EXCEPT ![c] = NoException]
    /\ UNCHANGED <<rt_max_retries, rt_delay, rt_log, rt_result>>
    /\ UNCHANGED notRetryVars

\* await func() returns: the wrapper returns its value
RetryFuncReturn(c, value) ==
    /\ rt_pc[c] = "calling"
    /\ rt_log' = [rt_log EXCEPT ![c] = Append(@, [outcome |-> "return", kind |-> None])]
    /\ rt_result' = [rt_result EXCEPT ![c] = [outcome |-> "returned", value |-> value,
                                               exception |-> NoException]]
    /\ rt_pc' = [rt_pc EXCEPT ![c] = "done"]
    /\ UNCHANGED <<rt_max_retries, rt_attempt, rt_last_exception, rt_delay>>
    /\ UNCHANGED notRetryVars

\* the except clause catching every exception, whatever its kind
RetryFuncRaiseAnyKind(c, kind) ==
    LET e == [kind |-> kind, id |-> Len(rt_log[c]) + 1]
    IN
    /\ rt_pc[c] = "calling"
    /\ rt_log' = [rt_log EXCEPT ![c] = Append(@, [outcome |-> "raise", kind |-> kind])]
    /\ rt_last_exception' = [rt_last_exception EXCEPT ![c] = e]
    /\ IF rt_attempt[c] < rt_max_retries
       THEN /\ rt_delay' = [rt_delay EXCEPT ![c] = BackoffFactor * Pow2(rt_attempt[c])]
            /\ rt_pc' = [rt_pc EXCEPT ![c] = "sleeping"]
            /\ UNCHANGED rt_result
       ELSE /\ rt_result' = [rt_result EXCEPT ![c] =
                                [outcome |-> "raised", value |-> 0, exception |-> e]]
            /\ rt_pc' = [rt_pc EXCEPT ![c] = "done"]
            /\ UNCHANGED rt_delay
    /\ UNCHANGED <<rt_max_retries, rt_attempt>>
    /\ UNCHANGED notRetryVars

\* the except clause with a loop that stops one attempt early
RetryFuncRaiseEarly(c, kind) ==
    LET e == [kind |-> kind, id |-> Len(rt_log[c]) + 1]
    IN
    /\ rt_pc[c] = "calling"
    /\ rt_log' = [rt_log EXCEPT ![c] = Append(@, [outcome |-> "raise", kind |-> kind])]
    /\ IF kind \notin RetryableKinds
       THEN /\ rt_result' = [rt_result EXCEPT ![c] = [outcome |-> "raised", value |-> 0,
                                                      exception |-> e]]
            /\ rt_pc' = [rt_pc EXCEPT ![c] = "done"]
            /\ UNCHANGED <<rt_last_exception, rt_delay>>
       ELSE /\ rt_last_exception' = [rt_last_exception EXCEPT ![c] = e]
            /\ IF rt_attempt[c] + 1 < rt_max_retries
               THEN /\ rt_delay' = [rt_delay EXCEPT ![c] = BackoffFactor * Pow2(rt_attempt[c])]
                    /\ rt_pc' = [rt_pc EXCEPT ![c] = "sleeping"]
                    /\ UNCHANGED rt_result
               ELSE /\ rt_result' = [rt_result EXCEPT ![c] =
                                        [outcome |-> "raised", value |-> 0, exception |-> e]]
                    /\ rt_pc' = [rt_pc EXCEPT ![c] = "done"]
                    /\ UNCHANGED rt_delay
    /\ UNCHANGED <<rt_max_retries, rt_attempt>>
    /\ UNCHANGED notRetryVars

\* await func() raises an exception of the kind: one outside the exceptions
\* tuple leaves the wrapper; one inside is kept as last_exception, and the
\* wrapper sleeps before the next attempt, or breaks and raises
\* last_exception after the last one
RetryFuncRaise(c, kind) ==
    LET e == [kind |-> kind, id |-> Len(rt_log[c]) + 1]
    IN
    /\ rt_pc[c] = "calling"
    /\ rt_log' = [rt_log EXCEPT ![c] = Append(@, [outcome |-> "raise", kind |-> kind])]
    /\ IF kind \notin RetryableKinds
       THEN /\ rt_result' = [rt_result EXCEPT ![c] = [outcome |-> "raised", value |-> 0,
                                                      exception |-> e]]
            /\ rt_pc' = [rt_pc EXCEPT ![c] = "done"]
            /\ UNCHANGED <<rt_last_exception, rt_delay>>
       ELSE /\ rt_last_exception' = [rt_last_exception EXCEPT ![c] = e]
            /\ IF rt_attempt[c] < rt_max_retries
               THEN /\ rt_delay' = [rt_delay EXCEPT ![c] = BackoffFactor * Pow2(rt_attempt[c])]
                    /\ rt_pc' = [rt_pc EXCEPT ![c] = "sleeping"]
                    /\ UNCHANGED rt_result
               ELSE /\ rt_result' = [rt_result EXCEPT ![c] =
                                        [outcome |-> "raised", value |-> 0, exception |-> e]]
                    /\ rt_pc' = [rt_pc EXCEPT ![c] = "done"]
                    /\ UNCHANGED rt_delay
    /\ UNCHANGED <<rt_max_retries, rt_attempt>>
    /\ UNCHANGED notRetryVars

\* asyncio.sleep(delay) returns: the next round of the for loop
RetrySleepDone(c) ==
    /\ rt_pc[c] = "sleeping"
    /\ rt_attempt' = [rt_attempt EXCEPT ![c] = @ + 1]
    /\ rt_pc' = [rt_pc EXCEPT ![c] = "calling"]
    /\ UNCHANGED <<rt_max_retries, rt_last_exception, rt_delay, rt_log, rt_result>>
    /\ UNCHANGED notRetryVars

RetryNext ==
    \E c \in RetryCallers :
       \/ RetryCall(c)
       \/ RetryFuncReturn(c, c)
       \/ \E kind \in ExceptionKinds : RetryFuncRaise(c, kind)
       \/ RetrySleepDone(c)

\* ---- bound: the threads that call record_llm_call
NumWriters == 2

Writers == 1..NumWriters

NoLocal == [data |-> <<>>, cost |-> 0]

\* no thread is inside record_llm_call
WritersInit ==
    /\ w_pc = [w \in Writers |-> "idle"]
    /\ w_local = [w \in Writers |-> NoLocal]
    /\ w_expected = IF cost_db.periods = <<>> THEN 0 ELSE LastPeriod(cost_db).total_spend

\* record_llm_call in a thread, up to json.dump: the rate, the cost,
\* json.load of the ledger file, the totals of the last period increased in
\* the loaded dict, current_spend set, the budget warning
WriterLoad(w, provider, model, input_tokens, output_tokens) ==
    LET cost == CallCost(provider, model, input_tokens, output_tokens)
        res(o, c, wn) == [op |-> "record_llm_call", outcome |-> o, cost |-> c, warned |-> wn]
    IN
    /\ w_pc[w] = "idle"
    /\ cost_calls < MaxCostCalls
    /\ cost_calls' = cost_calls + 1
    /\ IF cost_db.corrupt
       THEN /\ cost_result' = res("JSONDecodeError", 0, FALSE)
            /\ UNCHANGED <<current_spend, writerVars>>
       ELSE IF cost_db.periods = <<>>
       THEN /\ cost_result' = res("IndexError", 0, FALSE)
            /\ UNCHANGED <<current_spend, writerVars>>
       ELSE IF provider \notin DOMAIN LastPeriod(cost_db).breakdown
       THEN /\ cost_result' = res("KeyError", 0, FALSE)
            /\ UNCHANGED <<current_spend, writerVars>>
       ELSE LET n == Len(cost_db.periods)
                current == [cost_db.periods[n] EXCEPT
                               !.total_spend = @ + cost,
                               !.breakdown[provider] = @ + cost]
            IN /\ w_local' = [w_local EXCEPT ![w] =
                                 [data |-> [cost_db EXCEPT !.periods[n] = current],
                                  cost |-> cost]]
               /\ w_pc' = [w_pc EXCEPT ![w] = "loaded"]
               /\ w_expected' = w_expected + cost
               /\ current_spend' = current.total_spend
               /\ cost_result' = res("loaded", cost,
                                     current.total_spend * 10 > cost_db.monthly_budget * 8)
    /\ UNCHANGED <<today, cost_db, cost_config, current_period>>
    /\ UNCHANGED <<cbVars, batcherVars, orchVars, routingVars, valVars, retryVars,
                   recommended, backgroundVars, contextVars, poolVars>>

\* record_llm_call in a thread: f.seek(0) and json.dump of the dict the
\* thread loaded; shorter: the text written is shorter than the text it
\* overwrites
WriterDump(w, shorter) ==
    /\ w_pc[w] = "loaded"
    /\ cost_db' = [w_local[w].data EXCEPT !.corrupt = shorter /\ w_local[w].cost > 0]
    /\ w_pc' = [w_pc EXCEPT ![w] = "idle"]
    /\ w_local' = [w_local EXCEPT ![w] = NoLocal]
    /\ cost_result' = [cost_result EXCEPT !.outcome = "ok"]
    /\ UNCHANGED <<today, cost_config, current_spend, current_period, cost_calls,
                   w_expected>>
    /\ UNCHANGED <<cbVars, batcherVars, orchVars, routingVars, valVars, retryVars,
                   recommended, backgroundVars, contextVars, poolVars>>

(***************************************************************************)
(*                           Background tasks                              *)
(*                                                                         *)
(* Each task is a coroutine running "while True": a round of its loop is   *)
(* one step, and an exception that leaves the loop ends the coroutine.     *)
(***************************************************************************)
MaxCycles == 2

TaskNames == {"update_balancer_weights", "update_weights_loop",
              "background_flush", "monitor_loop"}

\* what update_weights finds when it reads the tracker: the read of
\* data/performance_metrics.json in _load_history (open, json.load) returns
\* or raises
ReadOutcomes == {"ok", "raise"}

\* asyncio.create_task(...) in Orchestrator.__init__, in
\* _start_background_tasks and in start_monitoring
BackgroundInit ==
    bg_tasks = [t \in TaskNames |-> [alive |-> TRUE, cycles |-> 0, raised |-> 0]]

\* a round of the loop of task t is over: raised, an exception was raised
\* inside it; caught, the loop body caught it
RoundOver(t, raised, caught) ==
    bg_tasks' = [bg_tasks EXCEPT ![t] =
                    [alive |-> ~raised \/ caught,
                     cycles |-> @.cycles + 1,
                     raised |-> @.raised + (IF raised THEN 1 ELSE 0)]]

\* a round of a task can start
CanRun(t) == bg_tasks[t].alive /\ bg_tasks[t].cycles < MaxCycles

\* the body of both weights loops after the sleep: update_weights when the
\* history is long enough
WeightsRound(read) ==
    IF Len(history) >= min_requests /\ read = "ok"
    THEN weights' = UpdateWeights(GetProviderMetrics)
    ELSE UNCHANGED weights

\* one round of Orchestrator._update_balancer_weights: no try in the loop
UpdateBalancerWeightsCycle(read) ==
    /\ CanRun("update_balancer_weights")
    /\ WeightsRound(read)
    /\ RoundOver("update_balancer_weights",
                 Len(history) >= min_requests /\ read = "raise", FALSE)
    /\ UNCHANGED <<perf_now, session_metrics, health_status, history, route_result,
                   min_requests>>
    /\ UNCHANGED <<coreVarsButRouting, recommended, writerVars, contextVars, poolVars>>

\* one round of AIService._update_weights_loop: the loop body is inside
\* try ... except Exception, which logs
UpdateWeightsLoopCycle(read) ==
    /\ CanRun("update_weights_loop")
    /\ WeightsRound(read)
    /\ RoundOver("update_weights_loop",
                 Len(history) >= min_requests /\ read = "raise", TRUE)
    /\ UNCHANGED <<perf_now, session_metrics, health_status, history, route_result,
                   min_requests>>
    /\ UNCHANGED <<coreVarsButRouting, recommended, writerVars, contextVars, poolVars>>

\* one round of AdaptiveBatcher.background_flush: the release of the
\* semaphore when something is pending; nothing in it raises
BackgroundFlushCycle ==
    /\ CanRun("background_flush")
    /\ IF pending # <<>> /\ sem_value < MaxPermits
       THEN FlushStep
       ELSE UNCHANGED batcherVars
    /\ RoundOver("background_flush", FALSE, FALSE)
    /\ UNCHANGED <<costVars, cbVars, orchVars, routingVars, valVars, retryVars,
                   recommended, writerVars, contextVars, poolVars>>

\* one round of SelfHealingController._monitor_loop: check_all_modules
\* catches what a health check raises, module by module
MonitorLoopCycle(probe, reinit) ==
    /\ CanRun("monitor_loop")
    /\ health_status' = [m \in ModuleIds |->
                            ProbeModule(health_status[m], probe[m], reinit[m])]
    /\ RoundOver("monitor_loop", \E m \in ModuleIds : probe[m] = "raise", TRUE)
    /\ UNCHANGED <<perf_now, session_metrics, weights, history, route_result,
                   min_requests>>
    /\ UNCHANGED <<coreVarsButRouting, recommended, writerVars, contextVars, poolVars>>

(***************************************************************************)
(*                             ConnectionPool                              *)
(*                                                                         *)
(* A connection is the number of the _create_connection call that made it. *)
(***************************************************************************)
MaxConnections == 2
NumPoolCallers == 3

PoolCallers == 1..NumPoolCallers

\* __init__
PoolInit ==
    /\ connections = <<>>
    /\ created_connections = 0
    /\ pool_pc = [c \in PoolCallers |-> "idle"]
    /\ pool_conn = [c \in PoolCallers |-> 0]

\* the connections made so far
MadeConnections ==
    (Range(connections) \cup {pool_conn[c] : c \in PoolCallers}) \ {0}

\* get_connection up to its first await: with an empty queue and
\* created_connections below max_connections it awaits _create_connection;
\* otherwise it takes a connection from the queue, or waits for one
GetConnection(c) ==
    /\ pool_pc[c] = "idle"
    /\ IF connections = <<>> /\ created_connections < MaxConnections
       THEN /\ pool_pc' = [pool_pc EXCEPT ![c] = "creating"]
            /\ UNCHANGED <<connections, pool_conn>>
       ELSE IF connections # <<>>
       THEN /\ pool_conn' = [pool_conn EXCEPT ![c] = Head(connections)]
            /\ connections' = Tail(connections)
            /\ pool_pc' = [pool_pc EXCEPT ![c] = "holding"]
       ELSE /\ pool_pc' = [pool_pc EXCEPT ![c] = "getting"]
            /\ UNCHANGED <<connections, pool_conn>>
    /\ UNCHANGED created_connections
    /\ UNCHANGED notPoolVars

\* get_connection: _create_connection returned, the counter is increased
\* and the connection returned
CreateConnectionReturn(c) ==
    /\ pool_pc[c] = "creating"
    /\ created_connections' = created_connections + 1
    /\ pool_conn' = [pool_conn EXCEPT ![c] = Cardinality(MadeConnections) + 1]
    /\ pool_pc' = [pool_pc EXCEPT ![c] = "holding"]
    /\ UNCHANGED connections
    /\ UNCHANGED notPoolVars

\* get_connection: _create_connection raised, and get_connection with it
CreateConnectionRaise(c) ==
    /\ pool_pc[c] = "creating"
    /\ pool_pc' = [pool_pc EXCEPT ![c] = "idle"]
    /\ UNCHANGED <<connections, created_connections, pool_conn>>
    /\ UNCHANGED notPoolVars

\* get_connection: connections.get() returns the first connection put
GetReturn(c) ==
    /\ pool_pc[c] = "getting"
    /\ connections # <<>>
    /\ pool_conn' = [pool_conn EXCEPT ![c] = Head(connections)]
    /\ connections' = Tail(connections)
    /\ pool_pc' = [pool_pc EXCEPT ![c] = "holding"]
    /\ UNCHANGED created_connections
    /\ UNCHANGED notPoolVars

\* release_connection(conn): connections.put(conn), which waits while the
\* queue holds maxsize connections
ReleaseConnection(c) ==
    /\ pool_pc[c] \in {"holding", "putting"}
    /\ IF Len(connections) < MaxConnections
       THEN /\ connections' = Append(connections, pool_conn[c])
            /\ pool_conn' = [pool_conn EXCEPT ![c] = 0]
            /\ pool_pc' = [pool_pc EXCEPT ![c] = "idle"]
       ELSE /\ pool_pc[c] = "holding"
            /\ pool_pc' = [pool_pc EXCEPT ![c] = "putting"]
            /\ UNCHANGED <<connections, pool_conn>>
    /\ UNCHANGED created_connections
    /\ UNCHANGED notPoolVars

\* concurrent callers of get_connection and release_connection
PoolNext ==
    \/ \E c \in PoolCallers : GetConnection(c)
    \/ \E c \in PoolCallers : CreateConnectionReturn(c)
    \/ \E c \in PoolCallers : CreateConnectionRaise(c)
    \/ \E c \in PoolCallers : GetReturn(c)
    \/ \E c \in PoolCallers : ReleaseConnection(c)

\* no read operation has been called yet, no thread is inside
\* record_llm_call, the background tasks have just been created
SvcInit ==
    /\ recommended = NoRecommendation
    /\ WritersInit
    /\ BackgroundInit
    /\ interaction_log = <<>>
    /\ PoolInit

\* the service as constructed on a fresh installation
Init ==
    /\ CostInitFresh /\ CbInit /\ BatcherInit /\ OrchInit /\ RoutingInitDefault
    /\ ValidatorInitWith(-1)
    /\ RetryInitWith(DefaultMaxRetries)
    /\ SvcInit

\* the same, with any quality standards
InitValidator ==
    /\ CostInitFresh /\ CbInit /\ BatcherInit /\ OrchInit /\ RoutingInitDefault
    /\ ValidatorInit
    /\ RetryInitWith(DefaultMaxRetries)
    /\ SvcInit

SpecValidator == InitValidator /\ [][ValidatorNext]_vars

\* _monitor_loop: one check_all_modules per round
HealingNext ==
    \E probe \in [ModuleIds -> ProbeOutcomesAll], reinit \in [ModuleIds -> InitializeBodies] :
       CheckAllModules(probe, reinit)

SpecHealing == Init /\ [][HealingNext]_vars

\* ReasoningEngine.process over the tracker: the recommendation is asked
\* for with the hash of the query, full or already cut to the stored
\* prefix, and the sample is recorded with the full hash
TrackerNext ==
    \/ \E h \in TrackerHashes : GetRecommendedSourceCall(h)
    \/ \E h \in TrackerHashes : GetRecommendedSourceCall(Prefix(h, HashPrefixLen))
    \/ \E src \in TrackerSources, l \in LatencyChoices, ok \in BOOLEAN, h \in TrackerHashes :
          RecordMetric(src, l, ok, h)

SpecTracker == Init /\ [][TrackerNext]_vars

\* the service with any max_retries of the handler
InitRetry ==
    /\ CostInitFresh /\ CbInit /\ BatcherInit /\ OrchInit /\ RoutingInitDefault
    /\ ValidatorInitWith(-1)
    /\ RetryInit
    /\ SvcInit

SpecRetry == InitRetry /\ [][RetryNext]_vars

\* the same, over any of the ledger files
InitCost ==
    /\ CostInit /\ CbInit /\ BatcherInit /\ OrchInit /\ RoutingInitDefault
    /\ ValidatorInitWith(-1)
    /\ RetryInitWith(DefaultMaxRetries)
    /\ SvcInit

\* the same, over a ledger file earlier runs have left and with any
\* configuration
InitRouting ==
    /\ \E config \in ConfigChoices, file \in InitFileChoices :
          CostInitOver(config, TRUE, file)
    /\ CbInit /\ BatcherInit /\ OrchInit /\ RoutingInit
    /\ ValidatorInitWith(-1)
    /\ RetryInitWith(DefaultMaxRetries)
    /\ SvcInit

\* threads that record LLM calls and performance samples at the same time,
\* as the user sessions of tests/performance/test_performance.py do
WritersNext ==
    \/ \E w \in Writers, c \in CallChoices, i \in TokenChoices, o \in TokenChoices :
          WriterLoad(w, c[1], c[2], i, o)
    \/ \E w \in Writers, shorter \in BOOLEAN : WriterDump(w, shorter)
    \/ \E src \in TrackerSources, h \in TrackerHashes : RecordMetric(src, 1, TRUE, h)

SpecWriters == InitCost /\ [][WritersNext]_vars

SpecCost == InitCost /\ [][CostNext]_vars

SpecBreaker == Init /\ [][CbNext]_vars

SpecBatcher == Init /\ [][BatcherNext]_vars

SpecOrch == Init /\ [][OrchNext]_vars

SpecPipeline == Init /\ [][PipelineNext]_vars

SpecRecording == Init /\ [][RecordingNext]_vars

SpecPool == Init /\ [][PoolNext]_vars

SpecRouting == InitRouting /\ [][RoutingNext]_vars

\* the SLARouter over a CostMonitor whose ledger and clock move
SlaNext ==
    \/ \E q \in SlaQueries, metrics \in MetricTables : SlaSelectProvider(q, metrics)
    \/ \E c \in CallChoices, i \in TokenChoices, o \in TokenChoices :
          RecordLlmCall(c[1], c[2], i, o, FALSE)
    \/ NextDay
    \/ NextMonth

\* the service over a ledger file earlier runs have left, the budget
\* configured or not
InitSla ==
    /\ \E config \in ConfigChoices, file \in SlaFileChoices :
          CostInitOver(config, TRUE, file)
    /\ CbInit /\ BatcherInit /\ OrchInit /\ RoutingInitDefault
    /\ ValidatorInitWith(-1)
    /\ RetryInitWith(DefaultMaxRetries)
    /\ SvcInit

SpecSla == InitSla /\ [][SlaNext]_vars

\* stage 1 of route_query over a tracker that records the calls and whose
\* clock moves, with the weights loop running
BalancerNext ==
    \/ \E c \in QueryContents, flag \in PriorityFlags, metrics \in MetricTables :
          RouteStageOne(c, flag, metrics)
    \/ \E s \in Sources, l \in LatencyChoices, ok \in BOOLEAN, h \in HashChoices :
          RecordMetric(s, l, ok, h)
    \/ UpdateBalancerWeights
    \/ PerfTick

\* the service on a fresh installation, with any configuration of the balancer
InitBalancer ==
    /\ CostInitFresh /\ CbInit /\ BatcherInit /\ OrchInit /\ RoutingInit
    /\ ValidatorInitWith(-1)
    /\ RetryInitWith(DefaultMaxRetries)
    /\ SvcInit

SpecBalancer == InitBalancer /\ [][BalancerNext]_vars

\* the queries of a long run of the LoadBalancer: the first differs from
\* those that follow
FirstContent == <<2>>
LaterContent == <<1>>

HistoryQuery(content) == [content |-> content, context |-> <<>>, priority |-> 0]

\* the LoadBalancer over a tracker that sees one source, for as many
\* selections as the history can hold and more, with the weights loop
\* running
HistoryNext ==
    \/ LbSelect(HistoryQuery(IF history = <<>> THEN FirstContent ELSE LaterContent))
    \/ \E h \in HashChoices : RecordMetric("llm", 1, TRUE, h)
    \/ UpdateBalancerWeights
    \/ PerfTick

SpecHistory == InitBalancer /\ [][HistoryNext]_vars

\* the background tasks of a running service, with samples arriving at the
\* tracker and the queries of one caller at the batcher
BackgroundNext ==
    \/ \E read \in ReadOutcomes : UpdateBalancerWeightsCycle(read)
    \/ \E read \in ReadOutcomes : UpdateWeightsLoopCycle(read)
    \/ BackgroundFlushCycle
    \/ \E probe \in [ModuleIds -> ProbeOutcomes], reinit \in [ModuleIds -> ReinitOutcomes] :
          MonitorLoopCycle(probe, reinit)
    \/ \E h \in HashChoices : RecordMetric("llm", 1, TRUE, h)
    \/ BAddQuery(1, 0)

SpecBackground == InitBalancer /\ [][BackgroundNext]_vars

(***************************************************************************)
(*                          Claims: CostMonitor                            *)
(***************************************************************************)
RecordStep == cost_calls' = cost_calls + 1

\* C9: across every record_llm_call with non-negative token counts no
\* period of the ledger loses spend: the periods keep their labels, no
\* total_spend and no per-provider breakdown entry decreases, and a call
\* that succeeds raises the total of the period it is booked to, and
\* current_spend, by exactly the priced cost of the call.
C9_SpendMonotonic ==
    [][RecordStep =>
         /\ Len(cost_db'.periods) = Len(cost_db.periods)
         /\ \A i \in DOMAIN cost_db.periods :
               /\ cost_db'.periods[i].period = cost_db.periods[i].period
               /\ cost_db'.periods[i].total_spend >= cost_db.periods[i].total_spend
               /\ \A p \in DOMAIN cost_db.periods[i].breakdown :
                     cost_db'.periods[i].breakdown[p] >= cost_db.periods[i].breakdown[p]
         /\ current_spend' >= current_spend
         /\ cost_result'.outcome = "ok" =>
               /\ LastPeriod(cost_db').total_spend
                     = LastPeriod(cost_db).total_spend + cost_result'.cost
               /\ current_spend' = LastPeriod(cost_db').total_spend]_vars

\* C9 witness: a second or later call has succeeded with a positive cost on
\* a period that already held spend
C9_Witness ==
    /\ cost_calls >= 2
    /\ cost_result.op = "record_llm_call"
    /\ cost_result.outcome = "ok"
    /\ cost_result.cost > 0
    /\ LastPeriod(cost_db).total_spend > cost_result.cost

\* C10: when the month has changed since the monitor loaded its period, a
\* call that is recorded is booked to a period of the new month, which starts
\* from 0 (its total is the cost of this call, and so is current_spend), and
\* every period that was in the ledger is still there with its total
\* unchanged.
C10_RolloverOnMonthChange ==
    [][(RecordStep /\ current_period.period # PeriodLabel(today)
                   /\ cost_result'.outcome = "ok") =>
         /\ LastPeriod(cost_db').period = PeriodLabel(today)
         /\ LastPeriod(cost_db').total_spend = cost_result'.cost
         /\ current_spend' = cost_result'.cost
         /\ SubSeq(cost_db'.periods, 1, Len(cost_db.periods)) = cost_db.periods]_vars

(***************************************************************************)
(*                         Claims: CircuitBreaker                          *)
(***************************************************************************)
\* a call of caller c arrives at the wrapper in this step
CbArrives(c) == cb_pc[c] = "idle" /\ cb_event'.caller = c
                /\ cb_event'.kind \in {"invoked", "rejected"}

\* C6: when the last failure_threshold completed calls have all failed and
\* recovery_timeout has not elapsed since the last failure, a call that
\* arrives is rejected with the open-circuit error and func is not invoked
\* for it.
C6_OpenRejects ==
    [][\A c \in CbCallers :
          (/\ CbArrives(c)
           /\ cb_consecutive >= FailureThreshold
           /\ cb_now - cb_last_failure < RecoveryTimeout)
          => (cb_event'.kind = "rejected" /\ cb_pc'[c] = "idle")]_vars

\* C6 witness: a call has been rejected right after failure_threshold
\* consecutive failures
C6_Witness ==
    /\ cb_state = "open"
    /\ cb_consecutive >= FailureThreshold
    /\ cb_event.kind = "rejected"
    /\ cb_now - cb_last_failure < RecoveryTimeout

\* C7: while the circuit is half-open (the probe call is in flight) no
\* other call is let through to func.
C7_SingleProbe ==
    [][cb_state = "half-open" =>
          \A c \in CbCallers : ~(cb_pc[c] = "idle" /\ cb_pc'[c] = "in_flight")]_vars

\* C8: the state only changes along closed->open, open->half-open,
\* half-open->closed and half-open->open.
C8_Transitions ==
    [][cb_state' # cb_state =>
          <<cb_state, cb_state'>> \in {<<"closed", "open">>, <<"open", "half-open">>,
                                       <<"half-open", "closed">>, <<"half-open", "open">>}]_vars

\* C8 witness: the circuit has gone closed -> open -> half-open -> closed (a
\* failure was recorded and the counter has been reset since, which only the
\* half-open success branch does) while another call is still in flight
C8_Witness ==
    /\ cb_state = "closed"
    /\ cb_last_failure >= 0
    /\ cb_failure_count = 0
    /\ cb_event.kind = "returned"
    /\ \E c \in CbCallers : cb_pc[c] = "in_flight"

(***************************************************************************)
(*                         Claims: AdaptiveBatcher                         *)
(***************************************************************************)
\* caller c makes an add_query call in this step
BAdds(c) == b_adds' = b_adds + 1 /\ b_result'[c] # b_result[c]

C4_NoTimeoutError ==
    \A c \in Callers : b_result[c].outcome # "TimeoutError"

\* C5: every batch returned by add_query holds at most max_batch_size
\* queries.
C5_BatchBounded ==
    \A c \in Callers : Len(b_result[c].batch) <= MaxBatchSize

\* C5 witness: one caller holds a batch of max_batch_size queries returned
\* at once, another a batch it was handed after waiting for the timer
C5_Witness ==
    \E c, d \in Callers :
       /\ Len(b_result[c].batch) = MaxBatchSize
       /\ b_result[d].outcome = "batch"
       /\ b_result[d].suspended
       /\ Len(b_result[d].batch) >= 1

(***************************************************************************)
(*                     Claims: Orchestrator batching                       *)
(***************************************************************************)
\* the batch_complete calls that carry the content of a caller of the scenario
ScenarioCalls ==
    {i \in DOMAIN provider_calls :
        \E j \in DOMAIN provider_calls[i].prompts :
           \E c \in scenario : provider_calls[i].prompts[j] = orch_query[c].content}

\* C2: when max_batch_size batching-eligible queries for one
\* batching-capable provider were submitted together, no provider call
\* failed and the callers have all got their response, then the provider has
\* received exactly one batch call for these queries, carrying all their
\* prompts, and every caller holds the provider's response to its own
\* content.
C2_OneBatchOwnResponses ==
    (/\ scenario # {}
     /\ \A i \in DOMAIN provider_calls : ~provider_calls[i].raised
     /\ \A c \in scenario : orch_pc[c] = "done")
    => /\ Cardinality(ScenarioCalls) = 1
       /\ \A i \in ScenarioCalls :
             /\ Len(provider_calls[i].prompts) = MaxBatchSize
             /\ Range(provider_calls[i].prompts) = {orch_query[c].content : c \in scenario}
       /\ \A c \in scenario :
             orch_response[c] = ResponseFor("provider", orch_query[c].content)

(***************************************************************************)
(*                            Claims: routing                              *)
(***************************************************************************)
\* select_provider of either router has returned a provider
Selected ==
    /\ route_result' # route_result
    /\ route_result'.outcome = "ok"

\* C1: no select_provider call, of the LoadBalancer or of the SLARouter,
\* returns a provider whose health record has the status FAILED.
C1_FailedNeverSelected ==
    [][Selected =>
          ~(/\ route_result'.provider \in ModuleIds
            /\ health_status[route_result'.provider].status = "FAILED")]_vars

\* a query flagged user_priority = "high" was handed to the SLARouter
HighPriorityRouted ==
    /\ route_result.by = "sla"
    /\ Get(route_result.query, "user_priority", None) = "high"

\* C11: whatever the budget state (spend, remaining budget, date, budget
\* configured or not), select_provider of the SLARouter resolves a query
\* flagged user_priority = "high" to the critical tier.
C11_HighIsCritical ==
    HighPriorityRouted => route_result.outcome = "ok" /\ route_result.tier = "critical"

\* C11 witness: a high-priority query has resolved to critical while the
\* forecast gives a burn rate above a tenth of the remaining budget
C11_Witness ==
    /\ HighPriorityRouted
    /\ route_result.tier = "critical"
    /\ GetSpendForecast.outcome = "ok"
    /\ GetSpendForecast.current_spend * 10
          > GetSpendForecast.budget_remaining * GetSpendForecast.days_elapsed

(***************************************************************************)
(*                  Claims: Orchestrator failure handling                  *)
(***************************************************************************)
\* the calls of _retry_with_stricter_llm that enclose the current
\* route_query call of caller c
Retries(c) == {i \in DOMAIN orch_stack[c] : orch_stack[c][i].via = "retry"}

\* C12: a route_query call retries at most once after a failed validation:
\* a response of the retry that fails validation too is not retried again.
C12_AtMostOneRetry == \A c \in Callers : Cardinality(Retries(c)) <= 1

\* C13: a route_query call in which a stage raised ends by raising only
\* when no module is registered under the fallback id of the content type
\* of its query, and then with the explicit RuntimeError of _handle_failure;
\* otherwise it returns the response of the fallback module.
C13_RaisesOnlyWithoutFallback ==
    \A c \in Callers :
       (orch_pc[c] = "done" /\ orch_response[c].source = "raised")
       => /\ orch_response[c].error = "RuntimeError"
          /\ orch_cur[c].content_type # NoAttr
          /\ FallbackId(orch_cur[c]) \notin ModuleIds

\* C15: a query without a priority flag is routed by the LoadBalancer; a
\* provider the balancer returns carries positive weight, so that a provider
\* at weight 1 is the one returned, and the routing decision the response is
\* annotated with has tier "balanced".
NoFlagRouted ==
    \E c \in QueryContents, metrics \in MetricTables :
       RouteStageOne(c, <<FALSE, 0>>, metrics)

WeightsSumToOne ==
    LET P == DOMAIN weights
        den == [p \in P |-> weights[p].den]
    IN SumOver(P, [p \in P |-> weights[p].num * ProdOver(P \ {p}, den)])
          = ProdOver(P, den)

C16_NormalizedOrUniform ==
    /\ DOMAIN weights # {} =>
          /\ \A p \in DOMAIN weights : weights[p].num >= 0 /\ weights[p].den > 0
          /\ WeightsSumToOne
    /\ route_result.by = "balancer" =>
          /\ route_result.outcome = "ok"
          /\ route_result.provider # None

Probed(P(_, _, _, _)) ==
    \A probe \in [ModuleIds -> ProbeOutcomesAll], reinit \in [ModuleIds -> InitializeBodies] :
       CheckAllModules(probe, reinit) =>
          \A m \in ModuleIds : P(health_status[m], probe[m], reinit[m], health_status'[m])

ProbeSetsStatus(before, probe, reinit, after) ==
    CASE probe = "degraded" -> after.status = "DEGRADED"
      [] probe = "healthy" -> after.status = "HEALTHY"
      [] OTHER -> /\ after.status = "FAILED"
                  /\ after.failure_count = before.failure_count + 1
                  /\ after.last_error = probe

C18_ProbeSetsStatus == [][Probed(ProbeSetsStatus)]_vars

\* C18 as amended: the same, except that a raising health check that takes
\* failure_count above 3 is followed at once by the recovery, so that the
\* probe leaves the module FAILED with a count of at most 3, or as the
\* recovery left it: HEALTHY with count 0, or FAILED.  last_error is the
\* error raised in every case.
ProbeSetsStatusOrRecovers(before, probe, reinit, after) ==
    CASE probe = "degraded" -> after.status = "DEGRADED"
      [] probe = "healthy" -> after.status = "HEALTHY"
      [] OTHER -> /\ after.last_error = probe
                  /\ IF before.failure_count + 1 <= RecoveryThreshold
                     THEN /\ after.status = "FAILED"
                          /\ after.failure_count = before.failure_count + 1
                     ELSE \/ after.status = "HEALTHY" /\ after.failure_count = 0
                          \/ /\ after.status = "FAILED"
                             /\ after.failure_count = before.failure_count + 1

C18_ProbeSetsStatusOrRecovers == [][Probed(ProbeSetsStatusOrRecovers)]_vars

C18_Witness ==
    \E m \in ModuleIds :
       /\ health_status[m].status = "HEALTHY"
       /\ health_status[m].failure_count = 0
       /\ health_status[m].last_error = "timeout"

\* C19: a raising probe is followed by a reinit attempt exactly when it
\* leaves failure_count above 3: at a lower count the module stays FAILED
\* with its count; above it, a module whose initialize succeeds becomes
\* HEALTHY with failure_count 0 and one whose initialize fails stays FAILED.
ProbeReinitsAboveThreshold(before, probe, reinit, after) ==
    probe \notin {"healthy", "degraded"} =>
       IF before.failure_count + 1 <= RecoveryThreshold
       THEN after.status = "FAILED" /\ after.failure_count = before.failure_count + 1
       ELSE IF reinit = "ok"
       THEN after.status = "HEALTHY" /\ after.failure_count = 0
       ELSE after.status = "FAILED"

C19_ReinitAboveThreshold == [][Probed(ProbeReinitsAboveThreshold)]_vars

\* C20: a wrapped call all of whose invocations failed with a retryable
\* exception has invoked the function max_retries + 1 times and raises the
\* exception of the last invocation; a call one of whose invocations
\* returned has returned its value, and that invocation is the last.
AllRetryable(c) ==
    \A i \in DOMAIN rt_log[c] :
       rt_log[c][i].outcome = "raise" /\ rt_log[c][i].kind \in RetryableKinds

C20_RetriesThenReraises ==
    \A c \in RetryCallers :
       /\ (rt_pc[c] = "done" /\ AllRetryable(c)) =>
             /\ Len(rt_log[c]) = rt_max_retries + 1
             /\ rt_result[c].outcome = "raised"
             /\ rt_result[c].exception =
                   [kind |-> rt_log[c][Len(rt_log[c])].kind, id |-> Len(rt_log[c])]
       /\ \A i \in DOMAIN rt_log[c] :
             rt_log[c][i].outcome = "return" =>
                /\ i = Len(rt_log[c])
                /\ rt_pc[c] = "done"
                /\ rt_result[c] = [outcome |-> "returned", value |-> c,
                                   exception |-> NoException]

C20_Witness ==
    \E c \in RetryCallers :
       /\ rt_pc[c] = "done"
       /\ AllRetryable(c)
       /\ rt_max_retries = 2
       /\ Len(rt_log[c]) = 3
       /\ rt_log[c][1].kind # rt_log[c][3].kind
       /\ rt_result[c].exception.id = 3
       /\ rt_delay[c] = 2

\* C21: the provider select_provider returns is one of the allowed
\* providers of the tier it resolved, and no eligible candidate has a
\* strictly higher score than it.
SelectsBest(query, metrics) ==
    (SlaSelectProvider(query, metrics) /\ route_result'.outcome = "ok") =>
       LET tier == Tiers[route_result'.tier]
           chosen == route_result'.provider
       IN /\ chosen \in Range(tier.allowed_providers)
          /\ \A p \in Range(Candidates(tier)) :
                ~ScoreLess(ScoreProvider(chosen, tier, metrics[chosen]),
                           ScoreProvider(p, tier, metrics[p]))

C21_SelectsHighestScore ==
    [][\A query \in SlaQueries, metrics \in MetricTables : SelectsBest(query, metrics)]_vars

\* C22: the queries of every batch the batcher releases are in descending
\* order of priority, those of equal priority in the order they were added,
\* and no query left pending by the release has a higher priority than a
\* released one.
Released(c) == b_result'[c] # b_result[c] /\ b_result'[c].outcome = "batch"

C22_PriorityOrder ==
    [][\A c \in Callers :
          Released(c) =>
             LET batch == b_result'[c].batch
             IN /\ \A i, j \in DOMAIN batch :
                      i < j => \/ batch[i].priority > batch[j].priority
                               \/ /\ batch[i].priority = batch[j].priority
                                  /\ batch[i].content < batch[j].content
                /\ \A i \in DOMAIN batch, k \in DOMAIN pending' :
                      pending'[k].priority <= batch[i].priority]_vars

\* C23: a release takes out of pending exactly the queries of the batch it
\* returns, and nothing else takes a query out of pending: the queries of
\* the batch and those left pending are the queries pending before
\* (with the one just added), none of them twice, and no query is in the
\* batches of two callers.
BatchContents(batch) == {batch[i].content : i \in DOMAIN batch}
PendingContents(pend) == {pend[k].query.content : k \in DOMAIN pend}
AddedContents == IF b_adds' # b_adds THEN {b_adds'} ELSE {}

C23_ReleasedExactlyOnce ==
    [][/\ \A c \in Callers :
             Released(c) =>
                LET batch == b_result'[c].batch
                IN /\ Cardinality(BatchContents(batch)) = Len(batch)
                   /\ BatchContents(batch) \cap PendingContents(pending') = {}
                   /\ BatchContents(batch) \cup PendingContents(pending')
                         = PendingContents(pending) \cup AddedContents
       /\ (\A c \in Callers : ~Released(c)) =>
             PendingContents(pending') = PendingContents(pending) \cup AddedContents
       /\ \A c, d \in Callers :
             c # d => BatchContents(b_result'[c].batch)
                         \cap BatchContents(b_result'[d].batch) = {}]_vars

\* a caller whose wait timed out left its query pending, and the query was
\* released since in the batch of another caller
C23_Witness ==
    \E c, d \in Callers :
       /\ b_result[c].outcome = "TimeoutError"
       /\ b_result[d].outcome = "batch"
       /\ Len(b_result[d].batch) = MaxBatchSize
       /\ pending = <<>>
       /\ b_adds = MaxBatchSize

\* C24: in the closed state the breaker counts consecutive failures: a call
\* that returns while the circuit is closed resets failure_count, and the
\* circuit goes from closed to open only when the last failure_threshold
\* completed calls have all failed.
CbReturns == \E c \in CbCallers : cb_pc[c] = "in_flight" /\ cb_event' = [caller |-> c, kind |-> "returned"]

C24_ConsecutiveFailures ==
    [][/\ (cb_state = "closed" /\ CbReturns) => cb_failure_count' = 0
       /\ (cb_state = "closed" /\ cb_state' = "open") =>
             cb_consecutive' >= FailureThreshold]_vars

\* the call that took the circuit to half-open completes in this step
ProbeCompletes(kind) ==
    /\ cb_probe # 0
    /\ cb_pc[cb_probe] = "in_flight"
    /\ cb_event' = [caller |-> cb_probe, kind |-> kind]

\* C25: the outcome of the call admitted in half-open determines the next
\* state: when it returns, the state becomes closed and failure_count 0;
\* when it raises, the state becomes open with the recovery_timeout counted
\* from that failure, and a call that arrives while the circuit is open and
\* no more than recovery_timeout has passed since the failure is rejected.
C25_ProbeOutcomeDecides ==
    [][/\ ProbeCompletes("returned") =>
             (cb_state' = "closed" /\ cb_failure_count' = 0)
       /\ ProbeCompletes("raised") =>
             (cb_state' = "open" /\ cb_last_failure' = cb_now)
       /\ \A c \in CbCallers :
             (/\ CbArrives(c)
              /\ cb_state = "open"
              /\ cb_now - cb_last_failure <= RecoveryTimeout) =>
                 cb_event'.kind = "rejected"]_vars

\* the query carries an urgency marker
Urgent(query) ==
    \/ "error" \in Range(Get(query, "intent", <<>>))
    \/ "production" \in Range(Get(query, "context", <<>>))

\* burn_rate > budget_remaining / 10 of the ledger as it stands, with
\* burn_rate the spend of the month per day elapsed
BurnExceedsTenth ==
    current_spend * 10 > (cost_config["monthly_budget"] - current_spend) * today.day

\* select_provider of the SLARouter resolves the query to the tier the
\* precedence of the rules gives it
TierByPrecedence(query, metrics) ==
    (/\ Get(query, "user_priority", None) # "high"
     /\ "monthly_budget" \in DOMAIN cost_config
     /\ SlaSelectProvider(query, metrics)) =>
        route_result'.tier = IF Urgent(query) THEN "critical"
                             ELSE IF BurnExceedsTenth THEN "economy"
                             ELSE "standard"

\* C26: for a query without the high-priority flag, an urgency marker
\* gives the critical tier whatever the budget state; otherwise the tier is
\* economy exactly when burn_rate > budget_remaining / 10, and standard
\* otherwise.
C26_TierPrecedence ==
    [][\A query \in SlaQueries, metrics \in MetricTables :
          TierByPrecedence(query, metrics)]_vars

\* the route_query step submits a query to the batcher
Submits == b_adds' = b_adds + 1

\* a provider batch call is issued in this step
BatchCallIssued == Len(provider_calls') = Len(provider_calls) + 1

\* add_query hands a batch of one query to the route_query call of c
SingleRelease(c) ==
    /\ b_result'[c] # b_result[c]
    /\ b_result'[c].outcome = "batch"
    /\ Len(b_result'[c].batch) = 1

\* C27: route_query submits a query to the AdaptiveBatcher only if batching
\* is allowed for the query and the selected provider supports batching; a
\* provider batch call is issued only for a released batch of more than one
\* query, and a release of one query goes on to module.process as a single
\* request.
C27_BatchOnlyWhenSupported ==
    [][/\ \A c \in OrchCallers, priority \in Priorities, allow_batching \in BOOLEAN,
             content_type \in ContentTypes, provider \in OrchProviders :
             (/\ RouteQuery(c, priority, allow_batching, content_type, provider, TRUE)
              /\ Submits) => (allow_batching /\ SupportsBatching(provider))
       /\ \A c \in OrchCallers, provider \in OrchProviders :
             (Reroute(c, provider, TRUE) /\ Submits) =>
                (orch_cur[c].allow_batching /\ SupportsBatching(provider))
       /\ BatchCallIssued =>
             Len(provider_calls'[Len(provider_calls')].prompts) > 1
       /\ \A c \in OrchCallers :
             SingleRelease(c) =>
                (orch_pc'[c] = "module_call" /\ provider_calls' = provider_calls)]_vars

\* the content and the metadata of a Query object
ContentAndMetadata(q) ==
    [content |-> q.content,
     metadata |-> [priority |-> q.priority, allow_batching |-> q.allow_batching,
                   require_quality |-> q.require_quality, reasoning |-> q.reasoning]]

C29_HealthyHasZeroCount ==
    \A m \in ModuleIds :
       health_status[m].status = "HEALTHY" => health_status[m].failure_count = 0

\* C29 witness: one module is HEALTHY by a probe, with count 0 and no error
\* on record, while the other has failed probes counted
C29_Witness ==
    \E m, n \in ModuleIds :
       /\ health_status[m].status = "HEALTHY"
       /\ health_status[m].failure_count = 0
       /\ health_status[m].last_error = None
       /\ health_status[n].status = "FAILED"
       /\ health_status[n].failure_count = RecoveryThreshold

\* C30: get_available_modules returns exactly the modules whose health
\* record is not FAILED: no FAILED module is listed and every HEALTHY or
\* DEGRADED module is listed.
C30_AvailableIsNotFailed ==
    \A m \in ModuleIds :
       /\ health_status[m].status = "FAILED" => m \notin GetAvailableModules
       /\ health_status[m].status \in {"HEALTHY", "DEGRADED"} => m \in GetAvailableModules

\* C30 witness: after probes, one module is FAILED and the other DEGRADED,
\* and the DEGRADED one alone is listed
C30_Witness ==
    \E m, n \in ModuleIds :
       /\ health_status[m].status = "FAILED"
       /\ health_status[n].status = "DEGRADED"
       /\ GetAvailableModules = {n}

\* C31: an exception of a kind outside the retryable kinds, raised by the
\* wrapped function, leaves the wrapper at once: the invocation that raised
\* it is the last one of the call, the caller gets that exception, and no
\* backoff wait follows it.
C31_OtherKindsPropagate ==
    \A c \in RetryCallers :
       \A i \in DOMAIN rt_log[c] :
          (rt_log[c][i].outcome = "raise" /\ rt_log[c][i].kind \notin RetryableKinds) =>
             /\ i = Len(rt_log[c])
             /\ rt_pc[c] = "done"
             /\ rt_result[c] = [outcome |-> "raised", value |-> 0,
                                exception |-> [kind |-> rt_log[c][i].kind, id |-> i]]
             /\ rt_delay[c] = IF i = 1 THEN 0 ELSE BackoffFactor * Pow2(i - 2)

\* C31 witness: with retries left, the first invocation raised an exception
\* outside the retryable kinds and the call is over, without any wait
C31_Witness ==
    \E c \in RetryCallers :
       /\ rt_max_retries > 0
       /\ rt_pc[c] = "done"
       /\ Len(rt_log[c]) = 1
       /\ rt_log[c][1].kind \notin RetryableKinds
       /\ rt_result[c].outcome = "raised"
       /\ rt_delay[c] = 0

(***************************************************************************)
(*                       Claims: PerformanceTracker                        *)
(***************************************************************************)
\* the sources of the successful samples recorded through record_metric
\* with the hash h (the hashes of TrackerHashes differ in their prefixes, so
\* the stored prefix tells the hash of a sample)
SuccessfulSourcesOf(h) ==
    {session_metrics[i].source :
        i \in {j \in DOMAIN session_metrics :
                  /\ session_metrics[j].success
                  /\ session_metrics[j].query_hash = Prefix(h, HashPrefixLen)}}

\* C32: whenever the history holds a successful sample recorded through
\* record_metric with the fingerprint h, get_recommended_source(h) returns
\* the source of a successful sample with that fingerprint, for every
\* fingerprint the query hasher produces.
C32_ReusesExactMatch ==
    [][\A h \in TrackerHashes :
          (GetRecommendedSourceCall(h) /\ SuccessfulSourcesOf(h) # {}) =>
             recommended'.source \in SuccessfulSourcesOf(h)]_vars

\* the samples of a source, and the sources that have history
SamplesOf(src) == SelectSeq(session_metrics, LAMBDA m : m.source = src)
SourcesWithHistory == {session_metrics[i].source : i \in DOMAIN session_metrics}

\* the success rate of source a is greater than that of b, or equal to it
SuccessCount(src) == Len(SelectSeq(SamplesOf(src), LAMBDA m : m.success))
RateGreater(a, b) ==
    SuccessCount(a) * Len(SamplesOf(b)) > SuccessCount(b) * Len(SamplesOf(a))
RateEqual(a, b) ==
    SuccessCount(a) * Len(SamplesOf(b)) = SuccessCount(b) * Len(SamplesOf(a))

\* twice the median latency of a source
MedianLatency2(src) ==
    MedianTimes2([i \in DOMAIN SamplesOf(src) |-> SamplesOf(src)[i].latency_ms])

\* no successful sample of the history has the hash as its query_hash
NoSuccessfulMatch(query_hash) ==
    \A i \in DOMAIN session_metrics :
       session_metrics[i].query_hash = query_hash => ~session_metrics[i].success

\* the call returns a source no other source with history beats
ReturnsBestRanked(query_hash) ==
    (GetRecommendedSourceCall(query_hash) /\ NoSuccessfulMatch(query_hash)) =>
        IF session_metrics = <<>> THEN recommended'.source = "llm"
        ELSE /\ recommended'.source \in SourcesWithHistory
             /\ \A other \in SourcesWithHistory :
                   \/ RateGreater(recommended'.source, other)
                   \/ /\ RateEqual(recommended'.source, other)
                      /\ MedianLatency2(recommended'.source) <= MedianLatency2(other)

\* C33: when no exact successful fingerprint match exists,
\* get_recommended_source returns the source with the greatest success rate
\* among the sources that have history, ties broken by the lower median
\* latency; on an empty history it returns the fallback source llm.
C33_RanksBySuccessThenLatency ==
    [][\A h \in TrackerHashes :
          /\ ReturnsBestRanked(h)
          /\ ReturnsBestRanked(Prefix(h, HashPrefixLen))]_vars

\* C33 witness: two sources have one successful sample each, the second
\* recorded is the faster, and a call whose hash matches no sample has
\* returned it
C33_Witness ==
    /\ Len(session_metrics) = 2
    /\ session_metrics[1].source # session_metrics[2].source
    /\ session_metrics[1].success /\ session_metrics[2].success
    /\ session_metrics[2].latency_ms < session_metrics[1].latency_ms
    /\ recommended.query_hash \in TrackerHashes
    /\ recommended.source = session_metrics[2].source

\* C34: on every calendar date, in each of the 12 months, get_spend_forecast
\* returns without error, with burn_rate = current_spend / days elapsed,
\* projected_spend = burn_rate * days in the month (both given by
\* current_spend, days_elapsed and days_in_month) and
\* budget_remaining = monthly_budget - current_spend.
C34_ForecastEveryMonth ==
    "monthly_budget" \in DOMAIN cost_config =>
       /\ GetSpendForecast.outcome = "ok"
       /\ GetSpendForecast.current_spend = current_spend
       /\ GetSpendForecast.days_elapsed = today.day
       /\ GetSpendForecast.days_in_month = DaysInMonth(today.year, today.month)
       /\ GetSpendForecast.budget_remaining = cost_config["monthly_budget"] - current_spend

(***************************************************************************)
(*                       Claims: concurrent writers                        *)
(***************************************************************************)
\* no thread is inside record_llm_call, and the ledger is readable
LedgerQuiescent ==
    /\ \A w \in Writers : w_pc[w] = "idle"
    /\ ~cost_db.corrupt
    /\ cost_db.periods # <<>>

\* C35: whatever the interleaving of concurrent writers, no update is lost:
\* once the concurrent record_llm_call calls are over the spend of the
\* period is its initial value plus the sum of the recorded costs, and every
\* record_metric call leaves its sample in the log exactly once, after the
\* samples already there.
C35_NoLostUpdate ==
    [][/\ LedgerQuiescent' => LastPeriod(cost_db').total_spend = w_expected'
       /\ \A src \in TrackerSources, h \in TrackerHashes :
             RecordMetric(src, 1, TRUE, h) =>
                /\ Len(session_metrics') = Len(session_metrics) + 1
                /\ SubSeq(session_metrics', 1, Len(session_metrics)) = session_metrics
                /\ session_metrics'[Len(session_metrics')].source = src]_vars

(***************************************************************************)
(*                     Claims: LoadBalancer history                        *)
(***************************************************************************)
\* a select_provider call for the content is made in this step
LbSelects(content) == LbSelect(HistoryQuery(content))

\* the history after the step is the history before it with one entry for
\* the content appended, the oldest entry dropped when it was full
OneEntryAppended(content) ==
    LET before == Len(history)
        after == Len(history')
        dropped == before + 1 - after
    IN /\ after = Min(before + 1, HistoryMaxLen)
       /\ history'[after][1] = Prefix(content, ContentPrefixLen)
       /\ \A i \in 1..(after - 1) : history'[i] = history[i + dropped]

\* C36: the decision history never holds more than 100 entries, the oldest
\* being dropped first; select_provider appends one entry to it and leaves
\* the weights unchanged; the weights change only in the periodic recompute,
\* which runs only when the history holds at least the configured minimum
\* number of entries.
C36_BoundedHistory ==
    [][/\ Len(history') <= HistoryMaxLen
       /\ \A content \in {FirstContent, LaterContent} :
             LbSelects(content) => (OneEntryAppended(content) /\ weights' = weights)
       /\ weights' # weights => (UpdateBalancerWeights /\ Len(history) >= min_requests)]_vars

(***************************************************************************)
(*                       Claims: QualityValidator                          *)
(***************************************************************************)
\* the deny-list of _check_code_safety matches in the text
MatchesDenyList(content) ==
    \E i \in DOMAIN content : Range(content[i]) \cap {"eval(", "system(", "os.popen"} # {}

\* C37: every call of validate returns a result whose passed flag is true
\* exactly when the safety check (no dangerous pattern in the content), the
\* complexity check and the formatting check all pass, and whose
\* original_response is the response it was given, whether it passed or not.
C37_PassedIffAllChecks ==
    \A i \in DOMAIN val_log :
       LET content == val_log[i].content
           result == val_log[i].result
       IN /\ result.outcome = "ok"
          /\ result.original_response = content
          /\ result.passed <=> /\ ~MatchesDenyList(content)
                                /\ CheckComplexity(content)
                                /\ CheckFormatting(content)

(***************************************************************************)
(*                       Claims: background tasks                          *)
(***************************************************************************)
\* C38: an exception raised inside one round of a background periodic task
\* (the weights recompute, the batcher flush, the health probe) does not end
\* the task: a task in whose rounds an exception was raised is still alive,
\* so that its loop goes on to the next round.
C38_RaisingCycleKeepsTask ==
    \A t \in TaskNames : bg_tasks[t].raised > 0 => bg_tasks[t].alive

(***************************************************************************)
(*                    Claims: interaction recording                        *)
(***************************************************************************)
\* C39: when the module response of a route_query call has passed
\* validation, the call returns that response, augmented, whether the
\* recording of the interaction returns or raises: a failure of the
\* recording does not change the response and does not turn it into a
\* fallback response.
C39_RecordingNeverChangesResponse ==
    [][\A c \in OrchCallers, recording \in RecordingOutcomes :
          OrchModuleReturnWith(c, TRUE, recording) =>
             /\ orch_pc'[c] = "done"
             /\ orch_response'[c] = ResponseFor("module", orch_cur[c].content)]_vars

(***************************************************************************)
(*                        Claims: ConnectionPool                           *)
(***************************************************************************)
\* C40: whatever the interleaving of concurrent get_connection and
\* release_connection calls, the pool never creates more than
\* max_connections connections: created_connections <= max_connections in
\* every reachable state.
C40_CreatedWithinMax == created_connections <= MaxConnections

====
